---- MODULE Spec2Model ----
(***************************************************************************)
(* Model of oncall_scheduler.py: the command line entry point main, the   *)
(* date expression parser, the date range calculation, the per-layer date *)
(* enumeration, the rotation assignment, the aggregation and sort, the    *)
(* person colour assignment and the three exporters.                      *)
(*                                                                         *)
(* Python strings that the program transforms or compares (date           *)
(* expressions, weekday keys, clock times, person names) are sequences of *)
(* one-character strings.  A midnight datetime is its proleptic Gregorian *)
(* ordinal (datetime.toordinal).  An optional value is a sequence of      *)
(* length 0 (None) or 1.  A YAML mapping is a function whose DOMAIN is    *)
(* the set of keys present.                                               *)
(***************************************************************************)
EXTENDS Integers, Sequences, FiniteSets, TLC

(***************************************************************************)
(* Characters and Python str operations.  The characters of the model are  *)
(* those of Latin-1 that are printable or whitespace; str.isspace,         *)
(* str.isalnum, str.lower, \d and \w are those of Python on this range.    *)
(***************************************************************************)
DigitChars == <<"0", "1", "2", "3", "4", "5", "6", "7", "8", "9">>

Range(f) == {f[i] : i \in DOMAIN f}

IndexOf(seq, c) == CHOOSE i \in DOMAIN seq : seq[i] = c

\* every character of the alphabet with its code point
CodePoints ==
    LET
        \* the characters with code points 32..95, in code point order
        AsciiChars ==
            <<" ", "!", "\"", "#", "$", "%", "&", "'", "(", ")", "*", "+", ",", "-", ".", "/",
            "0", "1", "2", "3", "4", "5", "6", "7", "8", "9", ":", ";", "<", "=", ">", "?",
            "@", "A", "B", "C", "D", "E", "F", "G", "H", "I", "J", "K", "L", "M", "N", "O",
            "P", "Q", "R", "S", "T", "U", "V", "W", "X", "Y", "Z", "[", "\\", "]", "^", "_">>

        \* the characters with code points 97..126, in code point order (a string
        \* of the model cannot hold the grave accent, code point 96)
        AsciiLowChars ==
            <<"a", "b", "c", "d", "e", "f", "g", "h", "i", "j", "k", "l", "m", "n", "o", "p",
            "q", "r", "s", "t", "u", "v", "w", "x", "y", "z", "{", "|", "}", "~">>

        \* the characters with code points 160..255, in code point order
        Latin1Chars ==
            <<" ", "¡", "¢", "£", "¤", "¥", "¦", "§", "¨", "©", "ª", "«", "¬", "­", "®", "¯",
            "°", "±", "²", "³", "´", "µ", "¶", "·", "¸", "¹", "º", "»", "¼", "½", "¾", "¿",
            "À", "Á", "Â", "Ã", "Ä", "Å", "Æ", "Ç", "È", "É", "Ê", "Ë", "Ì", "Í", "Î", "Ï",
            "Ð", "Ñ", "Ò", "Ó", "Ô", "Õ", "Ö", "×", "Ø", "Ù", "Ú", "Û", "Ü", "Ý", "Þ", "ß",
            "à", "á", "â", "ã", "ä", "å", "æ", "ç", "è", "é", "ê", "ë", "ì", "í", "î", "ï",
            "ð", "ñ", "ò", "ó", "ô", "õ", "ö", "÷", "ø", "ù", "ú", "û", "ü", "ý", "þ", "ÿ">>

        \* the whitespace characters below 32 and NEL, each with its code point
        ControlChars ==
            <<<<"\t", 9>>, <<"\n", 10>>, <<"", 11>>, <<"\f", 12>>, <<"\r", 13>>,
              <<"", 28>>, <<"", 29>>, <<"", 30>>, <<"", 31>>, <<"", 133>>>>
    IN
        {<<AsciiChars[i], 31 + i>> : i \in DOMAIN AsciiChars}
            \cup {<<AsciiLowChars[i], 96 + i>> : i \in DOMAIN AsciiLowChars}
            \cup {<<Latin1Chars[i], 159 + i>> : i \in DOMAIN Latin1Chars}
            \cup Range(ControlChars)

OrdOf == [c \in {p[1] : p \in CodePoints} |-> (CHOOSE p \in CodePoints : p[1] = c)[2]]

ChrOf == [n \in {p[2] : p \in CodePoints} |-> (CHOOSE p \in CodePoints : p[2] = n)[1]]

\* a decimal digit: \d of the regular expressions and the digits of int()
IsDigit(c) == c \in Range(DigitChars)

\* str.isspace for one character
IsSpace(c) == OrdOf[c] \in (9..13) \cup (28..32) \cup {133, 160}

\* str.isalnum for one character, by its code point
IsAlnum(c) ==
    OrdOf[c] \in (48..57) \cup (65..90) \cup (97..122) \cup {170, 181} \cup (178..179)
                  \cup (185..186) \cup (188..190) \cup (192..214) \cup (216..246)
                  \cup (248..255)

SetMin(S) == CHOOSE x \in S : \A y \in S : x <= y

SetMax(S) == CHOOSE x \in S : \A y \in S : x >= y

\* lexicographic str comparison a < b: the first position where they differ
\* decides, else the shorter string is the smaller
StrLess(a, b) ==
    LET differ == {i \in 1..Len(a) : i <= Len(b) /\ a[i] /= b[i]}
    IN IF differ = {} THEN Len(a) < Len(b)
       ELSE OrdOf[a[SetMin(differ)]] < OrdOf[b[SetMin(differ)]]

\* str.lower for one character: the lower case of the code points it
\* changes is 32 code points up
ToLowerChar(c) ==
    IF OrdOf[c] \in (65..90) \cup (192..214) \cup (216..222) THEN ChrOf[OrdOf[c] + 32] ELSE c

\* str.lower
Lower(s) == [i \in 1..Len(s) |-> ToLowerChar(s[i])]

\* s without its leading and trailing characters of the set spaces
Trim(s, spaces) ==
    SubSeq(s,
           Cardinality({i \in 1..Len(s) : \A j \in 1..i : s[j] \in spaces}) + 1,
           Len(s) - Cardinality({i \in 1..Len(s) : \A j \in i..Len(s) : s[j] \in spaces}))

\* str.strip without argument
Strip(s) == Trim(s, {c \in DOMAIN OrdOf : IsSpace(c)})

AllDigits(s) == \A i \in 1..Len(s) : IsDigit(s[i])

\* the value of a string of at most nine decimal digits
RECURSIVE IntOfDigits(_)
IntOfDigits(s) ==
    IF s = <<>> THEN 0
    ELSE 10 * IntOfDigits(SubSeq(s, 1, Len(s) - 1)) + (IndexOf(DigitChars, s[Len(s)]) - 1)

\* the decimal digits of n >= 0
RECURSIVE Decimal(_)
Decimal(n) == IF n < 10 THEN <<DigitChars[n + 1]>>
              ELSE Decimal(n \div 10) \o <<DigitChars[(n % 10) + 1]>>

\* str.split(sep) from position i on: the list of parts
RECURSIVE SplitFrom(_, _, _)
SplitFrom(s, sep, i) ==
    LET hits == {j \in i..(Len(s) - Len(sep) + 1) : SubSeq(s, j, j + Len(sep) - 1) = sep}
    IN IF hits = {} THEN <<SubSeq(s, i, Len(s))>>
       ELSE <<SubSeq(s, i, SetMin(hits) - 1)>> \o SplitFrom(s, sep, SetMin(hits) + Len(sep))

Split(s, sep) == SplitFrom(s, sep, 1)

\* sep.join(parts)
RECURSIVE Join(_, _)
Join(parts, sep) ==
    IF parts = <<>> THEN <<>>
    ELSE IF Len(parts) = 1 THEN parts[1]
    ELSE parts[1] \o sep \o Join(Tail(parts), sep)

\* str.replace(old, new)
Replace(s, old, new) == Join(Split(s, old), new)

(***************************************************************************)
(* Python int: a record of the sign and the decimal digits without leading *)
(* zeros, of any length.  Val is the number where arithmetic is done on    *)
(* it, which is for at most nine digits.                                   *)
(***************************************************************************)
\* sys.get_int_max_str_digits(): the most digits int() converts
MaxStrDigits == 4300

\* the int with the sign neg and the digits ds, leading zeros allowed
PyInt(neg, ds) ==
    LET zeros == Cardinality({i \in 1..Len(ds) : \A j \in 1..i : ds[j] = "0"})
    IN IF zeros = Len(ds) THEN [neg |-> FALSE, digits |-> <<"0">>]
       ELSE [neg |-> neg, digits |-> SubSeq(ds, zeros + 1, Len(ds))]

\* the int of a number of the model
PyOf(n) == [neg |-> n < 0, digits |-> Decimal(IF n < 0 THEN 0 - n ELSE n)]

Small(n) == Len(n.digits) <= 9

Val(n) == IF n.neg THEN 0 - IntOfDigits(n.digits) ELSE IntOfDigits(n.digits)

\* a < b for two numbers given by their digits without leading zeros
DigitsLess(a, b) == Len(a) < Len(b) \/ (Len(a) = Len(b) /\ StrLess(a, b))

\* does n fit the C int that datetime takes its fields as
FitsCInt(n) ==
    ~DigitsLess(<<"2", "1", "4", "7", "4", "8", "3", "6", "4", IF n.neg THEN "8" ELSE "7">>,
                n.digits)

\* results of an operation that may raise
Ok(v) == [ok |-> TRUE, val |-> v]

Raise(exc, msg) == [ok |-> FALSE, exc |-> exc, msg |-> msg]

\* the whitespace int() skips around a number: str.isspace less 28..31
IsIntSpace(c) == IsSpace(c) /\ OrdOf[c] \notin 28..31

\* the int of a number literal body: its leading run of digits and
\* underscores is scanned first, an underscore that is not between two
\* digits ending the conversion; then the count of digits is checked
\* against the limit of 4300, then that nothing follows the run
IntOfBody(neg, body, run) ==
    IF \/ run = 0
       \/ \E i \in 1..run : /\ body[i] = "_"
                            /\ (i = 1 \/ i = run \/ body[i - 1] = "_")
    THEN Raise("ValueError", "invalid literal for int()")
    ELSE IF Len(SelectSeq(SubSeq(body, 1, run), IsDigit)) > MaxStrDigits
    THEN Raise("ValueError", "Exceeds the limit (4300 digits) for integer string conversion")
    ELSE IF run < Len(body) THEN Raise("ValueError", "invalid literal for int()")
    ELSE Ok(PyInt(neg, SelectSeq(body, IsDigit)))

\* the int of a stripped literal: an optional sign, then the body
IntOfLiteral(t, body) ==
    IntOfBody(t /= <<>> /\ t[1] = "-", body,
              SetMin({i \in 1..Len(body) : ~IsDigit(body[i]) /\ body[i] /= "_"}
                         \cup {Len(body) + 1}) - 1)

\* int(s): surrounding whitespace, an optional sign, then decimal digits
\* with single underscores between digits; else ValueError
IntOf(s) ==
    LET t == Trim(s, {c \in DOMAIN OrdOf : IsIntSpace(c)})
    IN IntOfLiteral(t, IF t /= <<>> /\ t[1] \in {"+", "-"} THEN Tail(t) ELSE t)

(***************************************************************************)
(* datetime arithmetic (datetime, timedelta, relativedelta, strptime)      *)
(***************************************************************************)
DaysInMonth(y, m) ==
    IF m = 2 THEN (IF y % 4 = 0 /\ (y % 100 /= 0 \/ y % 400 = 0) THEN 29 ELSE 28)
    ELSE IF m \in {4, 6, 9, 11} THEN 30 ELSE 31

DaysBeforeYear(y) ==
    (y - 1) * 365 + ((y - 1) \div 4) - ((y - 1) \div 100) + ((y - 1) \div 400)

RECURSIVE DaysBeforeMonth(_, _)
DaysBeforeMonth(y, m) ==
    IF m = 1 THEN 0 ELSE DaysBeforeMonth(y, m - 1) + DaysInMonth(y, m - 1)

\* datetime(y, m, d).toordinal()
Ymd2Ord(y, m, d) == DaysBeforeYear(y) + DaysBeforeMonth(y, m) + d

\* the ordinals datetime can represent
OrdInRange(n) == n >= 1 /\ n <= Ymd2Ord(9999, 12, 31)

\* datetime.fromordinal(n): year, month, day
Ord2Ymd(n) ==
    LET n0 == n - 1
        n400 == n0 \div 146097
        r400 == n0 % 146097
        n100 == r400 \div 36524
        r100 == r400 % 36524
        n4 == r100 \div 1461
        r4 == r100 % 1461
        n1 == r4 \div 365
        r1 == r4 % 365
        y0 == n400 * 400 + 1 + n100 * 100 + n4 * 4 + n1
    IN IF n1 = 4 \/ n100 = 4
       THEN [y |-> y0 - 1, m |-> 12, d |-> 31]
       ELSE LET mo == CHOOSE m \in 1..12 :
                          /\ DaysBeforeMonth(y0, m) <= r1
                          /\ r1 < DaysBeforeMonth(y0, m) + DaysInMonth(y0, m)
            IN [y |-> y0, m |-> mo, d |-> r1 - DaysBeforeMonth(y0, mo) + 1]

\* datetime.weekday(): Monday is 0
Weekday(n) == (n + 6) % 7

\* dt + timedelta(days=n) for an int n >= 0: timedelta takes no more than
\* 999999999 days, and the sum must be a date
AddDays(dt, n) ==
    IF ~Small(n) \/ ~OrdInRange(dt + Val(n))
    THEN Raise("OverflowError", "date value out of range")
    ELSE Ok(dt + Val(n))

\* dt + timedelta(weeks=n) for an int n >= 0
AddWeeks(dt, n) ==
    IF ~Small(n) \/ Val(n) > 142857142 \/ ~OrdInRange(dt + 7 * Val(n))
    THEN Raise("OverflowError", "date value out of range")
    ELSE Ok(dt + 7 * Val(n))

\* relativedelta.__add__ ends in dt.replace(year=y2, month=m2, day=...),
\* the day clamped to the length of the month; replace rejects a year
\* outside 1..9999
ReplaceYearMonth(c, y2, m2) ==
    IF y2 < 1 \/ y2 > 9999 THEN Raise("ValueError", "year is out of range")
    ELSE Ok(Ymd2Ord(y2, m2, IF c.d < DaysInMonth(y2, m2) THEN c.d ELSE DaysInMonth(y2, m2)))

\* dt.replace with a year that is out of range: OverflowError when it does
\* not fit a C int, which is_over says, else ValueError
YearOutOfRange(is_over) ==
    IF is_over THEN Raise("OverflowError", "signed integer is greater than maximum")
    ELSE Raise("ValueError", "year is out of range")

\* dt + relativedelta(months=n): the year is dt.year + floor((dt.month - 1 + n) / 12),
\* which leaves the C int for n >= 12 * (2^31 - dt.year) - dt.month + 1 and
\* for -n > 12 * (2^31 + dt.year) + dt.month - 1, 12 * 2^31 being 25769803776
AddMonthsTo(c, n) ==
    IF Small(n)
    THEN ReplaceYearMonth(c, c.y + ((c.m - 1 + Val(n)) \div 12), ((c.m - 1 + Val(n)) % 12) + 1)
    ELSE IF n.neg
    THEN YearOutOfRange(DigitsLess(<<"2", "5", "7", "6", "9">>
                                       \o Decimal(803775 + 12 * c.y + c.m), n.digits))
    ELSE YearOutOfRange(~DigitsLess(n.digits, <<"2", "5", "7", "6", "9">>
                                                  \o Decimal(803777 - 12 * c.y - c.m)))

AddMonths(dt, n) == AddMonthsTo(Ord2Ymd(dt), n)

\* dt + relativedelta(years=n): the year dt.year + n leaves the C int for
\* n > 2^31 - 1 - dt.year and for -n > 2^31 + dt.year, 2^31 being 2147483648
AddYearsTo(c, n) ==
    IF Small(n) THEN ReplaceYearMonth(c, c.y + Val(n), c.m)
    ELSE IF n.neg
    THEN YearOutOfRange(DigitsLess(<<"2", "1", "4", "7", "4">> \o Decimal(83648 + c.y),
                                   n.digits))
    ELSE YearOutOfRange(DigitsLess(<<"2", "1", "4", "7", "4">> \o Decimal(83647 - c.y),
                                   n.digits))

AddYears(dt, n) == AddYearsTo(Ord2Ymd(dt), n)

\* the length of the %m field matched at the head of s, which the "-" of
\* the format must follow: 1[0-2] | 0[1-9] | [1-9]; 0 for no match
MatchMonth(s) ==
    IF /\ Len(s) >= 3 /\ s[3] = "-"
       /\ \/ s[1] = "1" /\ s[2] \in {"0", "1", "2"}
          \/ s[1] = "0" /\ IsDigit(s[2]) /\ s[2] /= "0"
    THEN 2
    ELSE IF Len(s) >= 2 /\ s[2] = "-" /\ IsDigit(s[1]) /\ s[1] /= "0" THEN 1
    ELSE 0

\* the length of the %d field matched at the head of s, the first
\* alternative that matches: 3[01] | [12]\d | 0[1-9] | [1-9] | " "[1-9]
MatchDay(s) ==
    IF Len(s) >= 2 /\ s[1] = "3" /\ s[2] \in {"0", "1"} THEN 2
    ELSE IF Len(s) >= 2 /\ s[1] \in {"1", "2"} /\ IsDigit(s[2]) THEN 2
    ELSE IF Len(s) >= 2 /\ s[1] = "0" /\ IsDigit(s[2]) /\ s[2] /= "0" THEN 2
    ELSE IF Len(s) >= 1 /\ IsDigit(s[1]) /\ s[1] /= "0" THEN 1
    ELSE IF Len(s) >= 2 /\ s[1] = " " /\ IsDigit(s[2]) /\ s[2] /= "0" THEN 2
    ELSE 0

\* the date of a string whose month field has mlen and day field dlen
\* characters (0 for a field that does not match), or ValueError
StrptimeFields(s, mlen, dlen) ==
    IF dlen = 0 THEN Raise("ValueError", "time data does not match format")
    ELSE IF 6 + mlen + dlen < Len(s)
    THEN Raise("ValueError", "unconverted data remains")
    ELSE LET y == IntOfDigits(SubSeq(s, 1, 4))
             m == IntOfDigits(SubSeq(s, 6, 5 + mlen))
             d == IntOfDigits(SelectSeq(SubSeq(s, 7 + mlen, 6 + mlen + dlen), IsDigit))
         IN IF y < 1 THEN Raise("ValueError", "year 0 is out of range")
            ELSE IF d > DaysInMonth(y, m)
            THEN Raise("ValueError", "day is out of range for month")
            ELSE Ok(Ymd2Ord(y, m, d))

\* the string from its day field on, after a month field of mlen characters
StrptimeDay(s, mlen) ==
    StrptimeFields(s, mlen, IF mlen > 0 THEN MatchDay(SubSeq(s, 7 + mlen, Len(s))) ELSE 0)

\* datetime.strptime(s, '%Y-%m-%d'): the date, or ValueError
Strptime(s) ==
    StrptimeDay(s, IF Len(s) >= 5 /\ AllDigits(SubSeq(s, 1, 4)) /\ s[5] = "-"
                   THEN MatchMonth(SubSeq(s, 6, Len(s))) ELSE 0)

(***************************************************************************)
(* parse_date_argument                                                     *)
(***************************************************************************)
\* re.match(r'^\+(\d+)([dwmy])?$', s): the groups, or <<>> for no match
RelativeMatch(s) ==
    IF Len(s) >= 2 /\ s[1] = "+"
    THEN LET body == Tail(s)
             last == body[Len(body)]
             hasUnit == last \in {"d", "w", "m", "y"}
             digits == IF hasUnit THEN SubSeq(body, 1, Len(body) - 1) ELSE body
         IN IF digits /= <<>> /\ AllDigits(digits)
            THEN <<[amount |-> digits, unit |-> IF hasUnit THEN <<last>> ELSE <<>>]>>
            ELSE <<>>
    ELSE <<>>

Today == <<"t", "o", "d", "a", "y">>

\* the ValueError of lines 80-84: the normalised string and the accepted formats
InvalidDateFormat(s) ==
    [ok |-> FALSE, exc |-> "ValueError", msg |-> "Invalid date format",
     text |-> s, formats |-> TRUE]

\* lines 64-74: the amount is converted, then added in its unit
AddAmount(reference_date, amount, unit) ==
    IF ~amount.ok THEN amount
    ELSE CASE unit = <<>> \/ unit = <<"d">> -> AddDays(reference_date, amount.val)
           [] unit = <<"w">> -> AddWeeks(reference_date, amount.val)
           [] unit = <<"m">> -> AddMonths(reference_date, amount.val)
           [] unit = <<"y">> -> AddYears(reference_date, amount.val)

\* lines 77-84: an absolute date, or the ValueError of line 80
AbsoluteDate(s, r) == IF r.ok THEN r ELSE InvalidDateFormat(s)

\* lines 53-84 for the trimmed, lower-cased string s and its match mt
ParseNormalized(s, mt, reference_date) ==
    IF s = Today THEN Ok(reference_date)
    ELSE IF mt /= <<>> THEN AddAmount(reference_date, IntOf(mt[1].amount), mt[1].unit)
    ELSE AbsoluteDate(s, Strptime(s))

parse_date_argument(date_str, reference_date) ==
    ParseNormalized(Lower(Strip(date_str)), RelativeMatch(Lower(Strip(date_str))),
                    reference_date)

(***************************************************************************)
(* The command line (lines 652-696).  argv is the list of the options as   *)
(* argparse tells them apart, each [opt |-> name, val |-> <<>> or          *)
(* <<value>>]: an option of the parser, followed by its value or by "="    *)
(* and a value, or any other argument.                                     *)
(***************************************************************************)
\* the namespace before parsing: None, None, None, False
Defaults == [config |-> <<>>, start_date |-> <<>>, end_date |-> <<>>, generate_ics |-> FALSE]

\* the exit of argparse: 2 with the usage message, 0 with the help text
SystemExit(msg, code) == [ok |-> FALSE, exc |-> "SystemExit", msg |-> msg, code |-> code]

\* the value the namespace gets for an option: that of its last occurrence
LastValue(argv, opt) ==
    LET at == {i \in DOMAIN argv : argv[i].opt = opt}
    IN IF at = {} THEN <<>> ELSE argv[SetMax(at)].val

\* the arguments are consumed in order; stops are those that end the run
\* at once: --help, an option that takes a value and has none, an option
\* that takes none and has one.  Unrecognised arguments and a missing
\* --config are reported when all are consumed
ArgsConsumed(argv, stops) ==
    IF stops /= {}
    THEN IF argv[SetMin(stops)] = [opt |-> "--help", val |-> <<>>]
         THEN SystemExit("help", 0)
         ELSE SystemExit("usage", 2)
    ELSE IF \/ LastValue(argv, "--config") = <<>>
            \/ \E i \in DOMAIN argv :
                  argv[i].opt \notin {"--config", "--start-date", "--end-date", "--generate-ics"}
    THEN SystemExit("usage", 2)
    ELSE Ok([config |-> LastValue(argv, "--config"),
             start_date |-> LastValue(argv, "--start-date"),
             end_date |-> LastValue(argv, "--end-date"),
             generate_ics |-> \E i \in DOMAIN argv : argv[i].opt = "--generate-ics"])

\* parser.parse_args()
parse_args(argv) ==
    ArgsConsumed(argv,
                 {i \in DOMAIN argv :
                     \/ argv[i].opt = "--help"
                     \/ argv[i].opt \in {"--config", "--start-date", "--end-date"}
                           /\ argv[i].val = <<>>
                     \/ argv[i].opt = "--generate-ics" /\ argv[i].val /= <<>>})

(***************************************************************************)
(* Paths and the file system.  A disk maps a path, its names joined by     *)
(* "/", to [kind |-> "dir"] or [kind |-> "file", content |-> ...]; the     *)
(* directory of every path on it is on it, and the working directory is    *)
(* its root.  Paths hold no ".." and no symbolic link.                     *)
(***************************************************************************)
\* the longest file name of the file system, in bytes
NameMax == 255

\* len(s.encode('utf-8')) for a string of the alphabet
Utf8Len(s) == Len(s) + Cardinality({i \in DOMAIN s : OrdOf[s[i]] > 127})

\* os.path.basename
Basename(path) == Split(path, <<"/">>)[Len(Split(path, <<"/">>))]

\* os.path.splitext(name)[0] for a name without "/": the extension starts
\* at the last dot, unless only dots come before it
SplitextRoot(name) ==
    LET dots == {i \in 1..Len(name) : name[i] = "." /\ \E j \in 1..(i - 1) : name[j] /= "."}
    IN IF dots = {} THEN name ELSE SubSeq(name, 1, SetMax(dots) - 1)

\* os.path.join(a, b) for an a that does not end in "/" and a relative b
PathJoin(a, b) == IF a = <<>> THEN b ELSE a \o <<"/">> \o b

\* the names of a path that the kernel walks: an empty name and "." stand
\* for the directory reached
Names(path) ==
    LET Named(name) == name \notin {<<>>, <<".">>}
    IN SelectSeq(Split(path, <<"/">>), Named)

\* what the names lead to on the disk d
Entry(d, names) ==
    IF names = <<>> THEN [kind |-> "dir"]
    ELSE IF Join(names, <<"/">>) \in DOMAIN d THEN d[Join(names, <<"/">>)]
    ELSE [kind |-> "none"]

\* what a path names: nothing for the empty path and for a file named as
\* a directory (with "/" or "/." at the end)
Lookup(d, path) ==
    IF path = <<>> \/ (Entry(d, Names(path)).kind = "file" /\ Basename(path) \in {<<>>, <<".">>})
    THEN [kind |-> "none"]
    ELSE Entry(d, Names(path))

\* the walk to the last of names stops at name k: after what is not a
\* directory, else because the name is too long
WalkError(d, names, k) ==
    IF k = 1 \/ Entry(d, SubSeq(names, 1, k - 1)).kind = "dir"
    THEN Raise("OSError", "File name too long")
    ELSE IF Entry(d, SubSeq(names, 1, k - 1)).kind = "none"
    THEN Raise("FileNotFoundError", "No such file or directory")
    ELSE Raise("NotADirectoryError", "Not a directory")

\* the error of creating what the path names, a file opened for writing
\* (leaf "file": open(path, 'w'), Workbook.save, savefig) or a directory
\* whose parent exists (leaf "dir": os.makedirs(path, exist_ok=True)), as
\* <<>> for none or <<exception>>
CreationError(d, path, names, leaf) ==
    LET stops == {k \in 1..Len(names) :
                     \/ Utf8Len(names[k]) > NameMax
                     \/ (k > 1 /\ Entry(d, SubSeq(names, 1, k - 1)).kind /= "dir")}
    IN IF path = <<>> THEN <<Raise("FileNotFoundError", "No such file or directory")>>
       ELSE IF stops /= {} THEN <<WalkError(d, names, SetMin(stops))>>
       ELSE IF leaf = "dir" /\ Entry(d, names).kind = "file"
       THEN <<Raise("FileExistsError", "File exists")>>
       ELSE IF leaf = "file" /\ Entry(d, names).kind = "dir"
       THEN <<Raise("IsADirectoryError", "Is a directory")>>
       ELSE <<>>

CreateError(d, path, leaf) == CreationError(d, path, Names(path), leaf)

(***************************************************************************)
(* Configuration access, load_schedule_config, calculate_date_range        *)
(***************************************************************************)
\* dict.get(k, default)
Get(d, k, default) == IF k \in DOMAIN d THEN d[k] ELSE default

\* the empty mapping {}
EmptyDict == [k \in {} |-> TRUE]

NA == <<"N", "/", "A">>

\* config_file is what the path names on the disk: nothing, a directory,
\* or a file with the mapping yaml.safe_load returns as its content
load_schedule_config(config_file) ==
    IF config_file.kind = "none"
    THEN Raise("FileNotFoundError", "Configuration file not found")
    ELSE IF config_file.kind = "dir"
    THEN Raise("IsADirectoryError", "Is a directory")
    ELSE IF "schedule" \notin DOMAIN config_file.content
    THEN Raise("ValueError", "Invalid configuration file: missing 'schedule' key")
    ELSE Ok(config_file.content.schedule)

\* overrides are <<>> (None) or <<ordinal>>; now is what line 130 reads
calculate_date_range(schedule_config, start_date_override, end_date_override, now) ==
    LET config_start == Get(schedule_config, "start_date", <<>>)
        st == IF start_date_override /= <<>> THEN Ok(start_date_override[1])
              ELSE IF config_start /= <<>> THEN Strptime(config_start)
              ELSE Ok(now)
    IN IF ~st.ok THEN st
       ELSE LET en == IF end_date_override /= <<>> THEN Ok(end_date_override[1])
                      ELSE AddMonths(st.val, PyOf(Get(schedule_config, "duration_months", 3)))
            IN IF ~en.ok THEN en
               ELSE Ok([start |-> st.val, end |-> en.val])

(***************************************************************************)
(* generate_dates_for_layer                                                *)
(***************************************************************************)
DayNames ==
    << <<"m", "o", "n", "d", "a", "y">>,
       <<"t", "u", "e", "s", "d", "a", "y">>,
       <<"w", "e", "d", "n", "e", "s", "d", "a", "y">>,
       <<"t", "h", "u", "r", "s", "d", "a", "y">>,
       <<"f", "r", "i", "d", "a", "y">>,
       <<"s", "a", "t", "u", "r", "d", "a", "y">>,
       <<"s", "u", "n", "d", "a", "y">> >>

\* day_map[name] for a name in day_map
day_map(name) == IndexOf(DayNames, name) - 1

InDayMap(name) == name \in Range(DayNames)

\* the keys of active_weekdays; active_weekdays[w] is DayNames[w + 1]
active_weekdays(layer_config) ==
    LET keys == IF "time_windows" \in DOMAIN layer_config
                THEN DOMAIN layer_config.time_windows
                ELSE Range(Get(layer_config, "days", <<>>))
    IN {day_map(Lower(day)) : day \in {k \in keys : InDayMap(Lower(k))}}

\* one step of the while loop of lines 174-178: is current_date emitted
EmitsDate(active, current_date) == Weekday(current_date) \in active

\* an enumeration that also takes the end date
generate_dates_for_layer_inclusive(layer_config, start_date, end_date) ==
    LET active == active_weekdays(layer_config)
        n == IF end_date >= start_date THEN end_date - start_date + 1 ELSE 0
        all == [i \in 1..n |-> start_date + (i - 1)]
        Test(d) == EmitsDate(active, d)
        kept == SelectSeq(all, Test)
    IN [i \in 1..Len(kept) |->
           [date |-> kept[i], day_name |-> DayNames[Weekday(kept[i]) + 1]]]

generate_dates_for_layer(layer_config, start_date, end_date) ==
    LET active == active_weekdays(layer_config)
        n == IF end_date > start_date THEN end_date - start_date ELSE 0
        all == [i \in 1..n |-> start_date + (i - 1)]
        Test(d) == EmitsDate(active, d)
        kept == SelectSeq(all, Test)
    IN [i \in 1..Len(kept) |->
           [date |-> kept[i], day_name |-> DayNames[Weekday(kept[i]) + 1]]]

(***************************************************************************)
(* generate_oncall_calendar: rotation assignment (lines 267-306)           *)
(***************************************************************************)
Sep == <<" ", "-", " ">>

\* f"{start_time} - {end_time}"
WindowString(start_time, end_time) == start_time \o Sep \o end_time

\* a rotation that starts at the second member
RotationPersonShifted(rotation_team, date_idx) ==
    rotation_team[((date_idx + 1) % Len(rotation_team)) + 1]

\* the rotation index of line 284 (0-based date_idx, 1-based sequence)
RotationPerson(rotation_team, date_idx) ==
    rotation_team[(date_idx % Len(rotation_team)) + 1]

\* lines 287-296: the window of one enumerated date
DayWindow(layer_config, day_name) ==
    LET time_windows == Get(layer_config, "time_windows", EmptyDict)
        old_time_window == Get(layer_config, "time_window", EmptyDict)
    IN IF DOMAIN time_windows /= {} /\ day_name \in DOMAIN time_windows
       THEN [start_time |-> Get(time_windows[day_name], "start", NA),
             end_time |-> Get(time_windows[day_name], "end", NA),
             is_dummy_day |-> Get(time_windows[day_name], "dummy", FALSE)]
       ELSE [start_time |-> Get(old_time_window, "start", NA),
             end_time |-> Get(old_time_window, "end", NA),
             is_dummy_day |-> FALSE]

\* line 299: is the shift appended
Materialized(is_dummy_layer, is_dummy_day) == ~is_dummy_layer /\ ~is_dummy_day

\* one iteration of the loop of line 283: <<>> or the appended shift
ShiftFor(layer, layer_idx, dates, date_idx) ==
    LET layer_config == layer.cfg
        w == DayWindow(layer_config, dates[date_idx + 1].day_name)
    IN IF Materialized(Get(layer_config, "dummy", FALSE), w.is_dummy_day)
       THEN << [date |-> dates[date_idx + 1].date,
                layer_name |-> Get(layer_config, "name", layer.id),
                time_window |-> WindowString(w.start_time, w.end_time),
                person |-> RotationPerson(Get(layer_config, "rotation_team", <<>>), date_idx),
                layer_idx |-> layer_idx] >>
       ELSE <<>>

(***************************************************************************)
(* the sort of line 309                                                    *)
(***************************************************************************)
\* the key (x[0], x[2]) of a shift
SortKey(x) == <<x.date, x.time_window>>

\* a comparison that ignores the time window
KeyLessDateOnly(a, b) == a[1] < b[1]

\* tuple comparison a < b of two sort keys
KeyLess(a, b) == a[1] < b[1] \/ (a[1] = b[1] /\ StrLess(a[2], b[2]))

\* the position list.sort gives element i: after every element with a smaller
\* key, and after the earlier elements with an equal key (the sort is stable)
SortedPosition(shifts, i) ==
    1 + Cardinality({j \in 1..Len(shifts) :
                        \/ KeyLess(SortKey(shifts[j]), SortKey(shifts[i]))
                        \/ (j < i /\ ~KeyLess(SortKey(shifts[i]), SortKey(shifts[j])))})

\* list.sort(key=lambda x: (x[0], x[2]))
SortShifts(shifts) ==
    LET pos == [i \in 1..Len(shifts) |-> SortedPosition(shifts, i)]
    IN [p \in 1..Len(shifts) |-> shifts[CHOOSE i \in 1..Len(shifts) : pos[i] = p]]

(***************************************************************************)
(* The aggregated schedule as a function of the layers and the range       *)
(***************************************************************************)
\* the loop of lines 283-306 for one layer: the shifts appended, in order
LayerShiftsOver(layer, idx, ds) ==
    LET each == [i \in 1..Len(ds) |-> ShiftFor(layer, idx, ds, i - 1)]
        Test(x) == x /= <<>>
        kept == SelectSeq(each, Test)
    IN [i \in 1..Len(kept) |-> kept[i][1]]

\* the body of the loop of line 267 for one layer
LayerShifts(layer, idx, start, end) ==
    IF Get(layer.cfg, "rotation_team", <<>>) = <<>> THEN <<>>
    ELSE LayerShiftsOver(layer, idx, generate_dates_for_layer(layer.cfg, start, end))

\* layer_shifts before the sort
RECURSIVE UnsortedShifts(_, _, _)
UnsortedShifts(layers, start, end) ==
    IF layers = <<>> THEN <<>>
    ELSE UnsortedShifts(SubSeq(layers, 1, Len(layers) - 1), start, end)
           \o LayerShifts(layers[Len(layers)], Len(layers) - 1, start, end)

\* layer_shifts after line 309
AggregatedSchedule(layers, start, end) == SortShifts(UnsortedShifts(layers, start, end))

(***************************************************************************)
(* person colours (lines 225-230, 324-342)                                 *)
(***************************************************************************)
colors ==
    <<"E8F5E9", "E3F2FD", "FFF3E0", "FCE4EC", "F3E5F5",
      "E0F2F1", "FFF9C4", "FFE0B2", "F8BBD0", "D1C4E9",
      "C8E6C9", "BBDEFB", "FFE0B2", "F8BBD0", "E1BEE7">>

\* a palette index that counts from one
PaletteColorFromOne(color_idx) == colors[((color_idx + 1) % Len(colors)) + 1]

\* colors[color_idx % len(colors)]
PaletteColor(color_idx) == colors[(color_idx % Len(colors)) + 1]

(***************************************************************************)
(* clock times                                                             *)
(***************************************************************************)
\* hours, minutes = ...: unpacking n parts of which ints are the converted
\* first three; a failed conversion ends it, then the number of parts does
UnpackHM(n, ints) ==
    LET bad == {i \in DOMAIN ints : ~ints[i].ok}
    IN IF bad /= {} THEN ints[SetMin(bad)]
       ELSE IF n = 1 THEN Raise("ValueError", "not enough values to unpack")
       ELSE IF n = 2 THEN Ok([hours |-> ints[1].val, minutes |-> ints[2].val])
       ELSE Raise("ValueError", "too many values to unpack")

\* map(int, parts) as far as the unpacking consumes it: two parts, and a
\* third to see that there is none
ConvertParts(parts) ==
    UnpackHM(Len(parts),
             [i \in 1..(IF Len(parts) < 3 THEN Len(parts) ELSE 3) |-> IntOf(parts[i])])

\* hours, minutes = map(int, time_str.split(':'))
ParseHM(time_str) == ConvertParts(Split(time_str, <<":">>))

\* the strftime fields %m, %d, %H, %M: two digits
TwoDigits(n) == <<DigitChars[(n \div 10) + 1], DigitChars[(n % 10) + 1]>>

\* shift_date.strftime('%Y-%m-%d'): %Y is the year without padding here
DateKey(shift_date) ==
    LET c == Ord2Ymd(shift_date)
    IN Decimal(c.y) \o <<"-">> \o TwoDigits(c.m) \o <<"-">> \o TwoDigits(c.d)

\* a datetime with a time of day: [date, hour, minute]
\* dt.strftime('%Y%m%dT%H%M%S')
IcsStamp(dt) ==
    LET c == Ord2Ymd(dt.date)
    IN Decimal(c.y) \o TwoDigits(c.m) \o TwoDigits(c.d) \o <<"T">>
       \o TwoDigits(dt.hour) \o TwoDigits(dt.minute) \o <<"0", "0">>

\* is the int n one of 0..hi
Within(n, hi) == ~n.neg /\ Small(n) /\ Val(n) <= hi

\* shift_date.replace(hour=h, minute=m, second=0, microsecond=0): both are
\* taken as C ints, then the hour is validated, then the minute
ReplaceTime(shift_date, hm) ==
    IF ~FitsCInt(hm.hours) \/ ~FitsCInt(hm.minutes)
    THEN Raise("OverflowError", "signed integer is greater than maximum")
    ELSE IF ~Within(hm.hours, 23) THEN Raise("ValueError", "hour must be in 0..23")
    ELSE IF ~Within(hm.minutes, 59) THEN Raise("ValueError", "minute must be in 0..59")
    ELSE Ok([date |-> shift_date, hour |-> Val(hm.hours), minute |-> Val(hm.minutes)])

(***************************************************************************)
(* generate_visual_schedule (lines 422-478, 519-523, 549).  A float is     *)
(* [exact |-> TRUE, whole, sixtieths], the number whole + sixtieths / 60   *)
(* with sixtieths in 0..59, when it comes from ints of at most nine digits:*)
(* the rounding of the float arithmetic then changes neither the order of  *)
(* two hour values nor what int() returns.  Any other float is             *)
(* [exact |-> FALSE, hours, minutes], known by the ints it was computed    *)
(* from.                                                                   *)
(***************************************************************************)
\* 2^1024 - 2^970: the magnitude from which on float(n) raises OverflowError
FloatLimit ==
    <<"1", "7", "9", "7", "6", "9", "3", "1", "3", "4", "8", "6", "2", "3", "1", "5", "8",
      "0", "7", "9", "3", "7", "2", "8", "9", "7", "1", "4", "0", "5", "3", "0", "3", "4",
      "1", "5", "0", "7", "9", "9", "3", "4", "1", "3", "2", "7", "1", "0", "0", "3", "7",
      "8", "2", "6", "9", "3", "6", "1", "7", "3", "7", "7", "8", "9", "8", "0", "4", "4",
      "4", "9", "6", "8", "2", "9", "2", "7", "6", "4", "7", "5", "0", "9", "4", "6", "6",
      "4", "9", "0", "1", "7", "9", "7", "7", "5", "8", "7", "2", "0", "7", "0", "9", "6",
      "3", "3", "0", "2", "8", "6", "4", "1", "6", "6", "9", "2", "8", "8", "7", "9", "1",
      "0", "9", "4", "6", "5", "5", "5", "5", "4", "7", "8", "5", "1", "9", "4", "0", "4",
      "0", "2", "6", "3", "0", "6", "5", "7", "4", "8", "8", "6", "7", "1", "5", "0", "5",
      "8", "2", "0", "6", "8", "1", "9", "0", "8", "9", "0", "2", "0", "0", "0", "7", "0",
      "8", "3", "8", "3", "6", "7", "6", "2", "7", "3", "8", "5", "4", "8", "4", "5", "8",
      "1", "7", "7", "1", "1", "5", "3", "1", "7", "6", "4", "4", "7", "5", "7", "3", "0",
      "2", "7", "0", "0", "6", "9", "8", "5", "5", "5", "7", "1", "3", "6", "6", "9", "5",
      "9", "6", "2", "2", "8", "4", "2", "9", "1", "4", "8", "1", "9", "8", "6", "0", "8",
      "3", "4", "9", "3", "6", "4", "7", "5", "2", "9", "2", "7", "1", "9", "0", "7", "4",
      "1", "6", "8", "4", "4", "4", "3", "6", "5", "5", "1", "0", "7", "0", "4", "3", "4",
      "2", "7", "1", "1", "5", "5", "9", "6", "9", "9", "5", "0", "8", "0", "9", "3", "0",
      "4", "2", "8", "8", "0", "1", "7", "7", "9", "0", "4", "1", "7", "4", "4", "9", "7",
      "7", "9", "2">>

\* hours + minutes / 60.0 for the converted time hm: minutes / 60.0 is
\* evaluated first, each int being converted to float
HourValue(hm) ==
    IF ~hm.ok THEN hm
    ELSE IF ~DigitsLess(hm.val.minutes.digits, FloatLimit)
            \/ ~DigitsLess(hm.val.hours.digits, FloatLimit)
    THEN Raise("OverflowError", "int too large to convert to float")
    ELSE IF Small(hm.val.hours) /\ Small(hm.val.minutes)
    THEN Ok([exact |-> TRUE,
             whole |-> Val(hm.val.hours) + (Val(hm.val.minutes) \div 60),
             sixtieths |-> Val(hm.val.minutes) % 60])
    ELSE Ok([exact |-> FALSE, hours |-> hm.val.hours, minutes |-> hm.val.minutes])

\* lines 466-468
time_to_y(time_str) == HourValue(ParseHM(time_str))

\* can the sum of line 468 be infinite: hours is within half a unit in the
\* last place of the largest float, 2^970, and minutes / 60.0 makes up for it
MayBeInfinite(y) ==
    /\ ~y.exact
    /\ Len(y.hours.digits) = Len(FloatLimit)
    /\ Len(y.minutes.digits) >= Len(FloatLimit) - 15
    /\ y.hours.neg = y.minutes.neg

\* a <= b for two exact floats
FloatLeq(a, b) == a.whole < b.whole \/ (a.whole = b.whole /\ a.sixtieths <= b.sixtieths)

\* int(x) of an exact float: truncation toward zero
IntHours(y) == IF y.whole >= 0 \/ y.sixtieths = 0 THEN y.whole ELSE y.whole + 1

\* line 477
MinTime(all_times) ==
    IntHours(CHOOSE x \in all_times : \A y \in all_times : FloatLeq(x, y))

\* an upper bound without the added hour
MaxTimeNoPad(all_times) ==
    IntHours(CHOOSE x \in all_times : \A y \in all_times : FloatLeq(y, x))

\* line 478
MaxTime(all_times) ==
    IntHours(CHOOSE x \in all_times : \A y \in all_times : FloatLeq(y, x)) + 1

\* lines 477-478 and 519: the axis over the hour values.  Where a float is
\* not exact the bounds are not computed; ticks says whether the axis has
\* one tick (TRUE: every hour value is the same float) or is not known
AxisOf(all_times, num_dates) ==
    IF \A y \in all_times : y.exact
    THEN Ok([exact |-> TRUE,
             min_time |-> MinTime(all_times),
             max_time |-> MaxTime(all_times),
             ylim |-> <<MinTime(all_times) - 2, MaxTime(all_times)>>,
             num_dates |-> num_dates])
    ELSE Ok([exact |-> FALSE,
             one_tick |-> Cardinality(all_times) = 1,
             num_dates |-> num_dates])

\* lines 470-475: the times are converted date key by date key, the keys
\* sorted as strings; the exception of the first conversion that fails
FirstFailure(keys, ys, failing) ==
    LET first == CHOOSE i \in failing : \A j \in failing :
                     \/ StrLess(keys[i], keys[j])
                     \/ keys[i] = keys[j] /\ i <= j
    IN IF ~ys[first][1].ok THEN ys[first][1] ELSE ys[first][2]

\* lines 470-519, ys[i] being the hour values of the start and end of shift
\* i and keys[i] its date key, which line 487 parses back; infinite says
\* whether a sum that may be infinite is: int() at line 477 or 478 then
\* raises OverflowError
LayoutOfTimes(keys, ys, infinite) ==
    LET failing == {i \in DOMAIN ys : ~ys[i][1].ok \/ ~ys[i][2].ok}
    IN IF failing /= {} THEN FirstFailure(keys, ys, failing)
       ELSE IF infinite
       THEN Raise("OverflowError", "cannot convert float infinity to integer")
       ELSE IF \E i \in DOMAIN keys : ~Strptime(keys[i]).ok
       THEN Raise("ValueError", "time data does not match format")
       ELSE AxisOf(UNION {{ys[i][1].val, ys[i][2].val} : i \in DOMAIN ys},
                   Cardinality(Range(keys)))

\* lines 434-447: start_time, end_time = time_window.split(' - ') of every
\* shift in turn, parts[i] being the parts of shift i
LayoutOfParts(keys, parts, infinite) ==
    LET unpacked == {i \in DOMAIN parts : Len(parts[i]) /= 2}
    IN IF unpacked /= {}
       THEN Raise("ValueError", IF Len(parts[SetMin(unpacked)]) < 2
                                THEN "not enough values to unpack"
                                ELSE "too many values to unpack")
       ELSE LayoutOfTimes(keys,
                          [i \in DOMAIN parts |-> [k \in 1..2 |-> time_to_y(parts[i][k])]],
                          infinite)

\* the layout of the timeline, or the exception that ends the function
VisualLayout(viz_shifts, infinite) ==
    LayoutOfParts([i \in DOMAIN viz_shifts |-> DateKey(viz_shifts[i].date)],
                  [i \in DOMAIN viz_shifts |-> Split(viz_shifts[i].time_window, Sep)],
                  infinite)

\* the outcomes of the sums of line 468 over the shifts drawn: is one infinite
Infinities(viz_shifts) ==
    IF \E i \in DOMAIN viz_shifts :
          \E part \in Range(Split(viz_shifts[i].time_window, Sep)) :
              time_to_y(part).ok /\ MayBeInfinite(time_to_y(part).val)
    THEN BOOLEAN
    ELSE {FALSE}

(***************************************************************************)
(* generate_ics_files (lines 567-639)                                      *)
(***************************************************************************)
\* the keys of shifts_by_person in insertion order
PersonsInOrder(shifts) ==
    LET IsNewKey(i) == \A j \in 1..(i - 1) : shifts[j].person /= shifts[i].person
        firsts == SelectSeq([i \in 1..Len(shifts) |-> i], IsNewKey)
    IN [k \in 1..Len(firsts) |-> shifts[firsts[k]].person]

\* shifts_by_person[person]
ShiftsOf(shifts, person) ==
    LET Test(x) == x.person = person
    IN SelectSeq(shifts, Test)

IsWordChar(c) == IsAlnum(c) \/ c = "_"

\* line 580: every character that is neither alphanumeric nor one of
\* ' ', '_', '-' becomes '_'
Sanitized(person) ==
    [i \in 1..Len(person) |->
        IF IsAlnum(person[i]) \/ person[i] \in {" ", "_", "-"} THEN person[i] ELSE "_"]

\* the positions \b(\d)\b matches in s: a digit with no word character on
\* either side
LoneDigits(s) ==
    {i \in DOMAIN s : /\ IsDigit(s[i])
                      /\ (i = 1 \/ ~IsWordChar(s[i - 1]))
                      /\ (i = Len(s) \/ ~IsWordChar(s[i + 1]))}

\* line 582: re.sub puts a "0" before each of the positions lone
InsertZeros(s, lone) ==
    [j \in 1..(Len(s) + Cardinality(lone)) |->
        LET i == CHOOSE i \in DOMAIN s :
                     j \in {i + Cardinality({k \in lone : k < i}),
                            i + Cardinality({k \in lone : k <= i})}
        IN IF i \in lone /\ j = i + Cardinality({k \in lone : k < i}) THEN "0" ELSE s[i]]

PadLoneDigits(s) == InsertZeros(s, LoneDigits(s))

\* lines 580-582: the sanitised, zero-padded file name (without ".ics")
SafeFilename(person) == PadLoneDigits(Sanitized(person))

UidSuffix == <<"-", "o", "n", "c", "a", "l", "l", "@",
               "s", "c", "h", "e", "d", "u", "l", "e", "r">>

\* line 615
EventUid(start_str, person) ==
    start_str \o <<"-">> \o Replace(person, <<" ">>, <<"-">>) \o UidSuffix

\* lines 615-636: the event between two datetimes, dt being the results of
\* the two replace() calls
EventOfDatetimes(shift, person, dt) ==
    IF ~dt[1].ok THEN dt[1]
    ELSE IF ~dt[2].ok THEN dt[2]
    ELSE Ok([uid |-> EventUid(IcsStamp(dt[1].val), person),
             dtstart |-> dt[1].val,
             dtend |-> dt[2].val,
             summary |-> shift.layer_name,
             person |-> person])

\* lines 603-608, hm being the converted start and end times
EventOfTimes(shift, person, hm) ==
    IF ~hm[1].ok THEN hm[1]
    ELSE IF ~hm[2].ok THEN hm[2]
    ELSE EventOfDatetimes(shift, person,
                          [k \in 1..2 |-> ReplaceTime(shift.date, hm[k].val)])

\* lines 598-604: the start and end strings of the window, '23:59' for a
\* missing end
EventOfParts(shift, person, time_parts) ==
    EventOfTimes(shift, person,
                 [k \in 1..2 |-> ParseHM(IF k = 1 THEN time_parts[1]
                                         ELSE IF Len(time_parts) > 1 THEN time_parts[2]
                                         ELSE <<"2", "3", ":", "5", "9">>)])

\* lines 597-636: the event of one shift, or the exception raised before it is written
EventFor(shift, person) == EventOfParts(shift, person, Split(shift.time_window, Sep))

\* the events written before the first failing shift, whether all were
\* written, and the exception of the failing shift; each[i] is the event of
\* shift i or its exception
EventsWritten(each) ==
    LET failing == {i \in DOMAIN each : ~each[i].ok}
        written == IF failing = {} THEN Len(each) ELSE SetMin(failing) - 1
    IN [events |-> [i \in 1..written |-> each[i].val],
        complete |-> failing = {},
        error |-> IF failing = {} THEN <<>> ELSE <<each[SetMin(failing)]>>]

\* lines 595-636 for the shifts of one person
WriteEvents(shifts, person) ==
    EventsWritten([i \in DOMAIN shifts |-> EventFor(shifts[i], person)])

(***************************************************************************)
(* Inputs: command lines, configuration files, the current date            *)
(***************************************************************************)
\* the largest number of layers of an enumerated configuration
MaxLayers == 2

\* the largest amount N of an enumerated relative expression +N<unit>
MaxAmount == 1

\* the most midnights that pass between two reads of the clock
MaxClockStep == 1

\* the runs: what the clock shows, the disk and the command line.  The
\* enumerated command lines, disks and configuration files are defined first
Runs ==
    LET
        pA == <<"A">>

        pB == <<"B">>

        pC == <<"C">>

        T(h1, h2) == <<h1, h2, ":", "0", "0">>

        Win(s, e) == [start |-> s, end |-> e]

        DummyWin(s, e) == [start |-> s, end |-> e, dummy |-> TRUE]

        Monday == <<"M", "o", "n", "d", "a", "y">>

        LayerEarly ==
            [id |-> "early",
             cfg |-> [name |-> "Early", rotation_team |-> <<pA, pB>>,
                      time_windows |-> (DayNames[1] :> Win(T("0", "8"), T("1", "2")))
                                    @@ (DayNames[2] :> DummyWin(T("0", "8"), T("1", "2")))
                                    @@ (DayNames[3] :> Win(T("0", "8"), T("1", "2")))
                                    @@ (DayNames[4] :> Win(T("1", "2"), T("1", "6")))]]

        \* the layers of the enumerated files: a late layer without name, a dummy
        \* layer, a layer with an empty team, a capitalised day key, a legacy layer
        \* (days + time_window) with an unknown day, and a window ending at 24:00
        LayerPool ==
            {LayerEarly,
             [id |-> "late",
              cfg |-> [rotation_team |-> <<pC, pA, pB>>,
                       time_windows |-> (DayNames[1] :> Win(T("0", "8"), T("1", "0")))
                                     @@ (DayNames[2] :> Win(T("0", "9"), T("1", "0")))
                                     @@ (DayNames[3] :> Win(T("1", "2"), T("1", "8")))]],
             [id |-> "shadow",
              cfg |-> [name |-> "Shadow", dummy |-> TRUE, rotation_team |-> <<pB, pC>>,
                       time_windows |-> (DayNames[1] :> Win(T("0", "8"), T("1", "2")))
                                     @@ (DayNames[2] :> DummyWin(T("0", "8"), T("1", "2")))]],
             [id |-> "vacant",
              cfg |-> [name |-> "Vacant", rotation_team |-> <<>>,
                       time_windows |-> (DayNames[1] :> Win(T("0", "8"), T("1", "2")))
                                     @@ (DayNames[3] :> Win(T("0", "8"), T("1", "2")))]],
             [id |-> "caps",
              cfg |-> [name |-> "Caps", rotation_team |-> <<pA, pC>>,
                       time_windows |-> (Monday :> DummyWin(T("0", "8"), T("1", "2")))
                                     @@ (DayNames[2] :> Win(T("1", "4"), T("1", "6")))]],
             [id |-> "legacy",
              cfg |-> [name |-> "Legacy",
                       rotation_team |-> << <<"U", " ", "1">>, <<"U", " ", "0", "1">> >>,
                       days |-> << Monday, DayNames[5], <<"f", "u", "n", "d", "a", "y">> >>,
                       time_window |-> Win(T("1", "0"), T("1", "2"))]],
             [id |-> "night",
              cfg |-> [name |-> "Night", rotation_team |-> <<pB>>,
                       time_windows |-> (DayNames[3] :> Win(T("1", "8"), T("2", "4")))]]}

        \* the layers mapping of a file: layers in declaration order, ids distinct
        LayerLists ==
            {ls \in UNION {[1..n -> LayerPool] : n \in 1..MaxLayers} :
                \A i, j \in DOMAIN ls : i /= j => ls[i].id /= ls[j].id}

        \* the path of the configuration file of most command lines
        SYaml == <<"s", ".", "y", "a", "m", "l">>

        File(content) == [kind |-> "file", content |-> content]

        \* a disk that holds s.yaml with the schedule
        ConfigFile(schedule) == SYaml :> File([schedule |-> schedule])

        D20260105 == <<"2", "0", "2", "6", "-", "0", "1", "-", "0", "5">>

        D20260119 == <<"2", "0", "2", "6", "-", "0", "1", "-", "1", "9">>

        D20260230 == <<"2", "0", "2", "6", "-", "0", "2", "-", "3", "0">>

        \* +N, +Nd, +Nw, +Nm and the unknown unit +Nx; years only as +0y here, a
        \* year-long range being enumerated from --start-date +1y instead
        RelativeArgs ==
            {<<"+">> \o Decimal(n) \o u :
                n \in 0..MaxAmount, u \in {<<>>, <<"d">>, <<"w">>, <<"m">>, <<"x">>}}
            \cup {<<"+", "0", "y">>}

        \* --start-date: <<>> when the option is absent, else <<string>>
        StartArgs ==
            {<<>>, <<<<>>>>, << Today >>, << <<"+", "1">> >>,
             << <<" ", "+", "1", "W", " ">> >>, << <<"+", "1", "y">> >>,
             << D20260119 >>, << <<"2", "0", "2", "6", "-", "1", "-", "9">> >>,
             << <<"t", "o", "m", "o", "r", "r", "o", "w">> >>,
             << <<"+", "4", "0", "0", "0", "0", "0", "0", "d">> >>}

        EndArgs ==
            {<<>>, <<<<>>>>, << D20260119 >>, << D20260230 >>,
             << <<"2", "0", "2", "6", "/", "0", "1", "/", "1", "9">> >>,
             << <<"2", "0", "2", "5", "-", "1", "2", "-", "0", "1">> >>,
             << <<"T", "o", "d", "a", "y">> >>, << <<"\t", "T", "O", "D", "A", "Y", "\n">> >>,
             << <<"1", "d">> >>, << <<"+", "d">> >>, << <<"+", "-", "1", "d">> >>,
             << <<"+", "9", "9", "9", "9", "y">> >>}
            \cup {<<a>> : a \in RelativeArgs}

        MondayLayer ==
            [id |-> "weekly",
             cfg |-> [name |-> "Weekly", rotation_team |-> <<pA, pB>>,
                      time_windows |-> (DayNames[1] :> Win(T("0", "8"), T("1", "2")))]]

        \* command lines over a small valid configuration
        ArgScenarios ==
            {[today |-> td, disk |-> ConfigFile([name |-> "Args", layers |-> <<MondayLayer>>]),
              start_date |-> s, end_date |-> e, generate_ics |-> FALSE] :
                td \in {Ymd2Ord(2026, 1, 5), Ymd2Ord(2026, 1, 31)}, s \in StartArgs, e \in EndArgs}

        \* configuration defaults for the range
        DefaultScenarios ==
            {[today |-> Ymd2Ord(2026, 1, 5), disk |-> ConfigFile(sch),
              start_date |-> <<>>, end_date |-> e, generate_ics |-> g] :
                sch \in {[layers |-> <<MondayLayer>>] @@ sd @@ dm :
                            sd \in {EmptyDict, [start_date |-> D20260119], [start_date |-> D20260230]},
                            dm \in {EmptyDict, [duration_months |-> 0], [duration_months |-> 1],
                                    [duration_months |-> 96000]}},
                e \in {<<>>, << <<"+", "1", "w">> >>},
                g \in BOOLEAN}

        \* layer configurations over a fixed range starting on a Monday
        LayerScenarios ==
            {[today |-> Ymd2Ord(2026, 1, 5), disk |-> ConfigFile([name |-> "Layers", layers |-> ls]),
              start_date |-> << D20260105 >>, end_date |-> << <<"+", "8", "d">> >>,
              generate_ics |-> g] :
                ls \in LayerLists, g \in BOOLEAN}

        \* files that are missing or malformed
        ShapeScenarios ==
            {[today |-> Ymd2Ord(2026, 1, 5), disk |-> f,
              start_date |-> s, end_date |-> <<>>, generate_ics |-> FALSE] :
                f \in {EmptyDict,
                       SYaml :> File([name |-> "x"]),
                       ConfigFile([name |-> "NoLayersKey"]),
                       ConfigFile([name |-> "NoLayers", layers |-> <<>>])},
                s \in {<<>>, << D20260105 >>, << <<"n", "o", "w">> >>}}

        PaletteScenarios ==
            {[today |-> Ymd2Ord(2026, 1, 5),
              disk |-> ConfigFile([name |-> "Big",
                                     layers |-> << [id |-> "big",
                                                    cfg |-> [rotation_team |->
                                                                 [i \in 1..(Len(colors) + 2) |->
                                                                     <<"P">> \o Decimal(i)],
                                                             time_windows |->
                                                                 [k \in Range(DayNames) |->
                                                                     Win(T("0", "8"), T("1", "2"))]]] >>]),
              start_date |-> << D20260105 >>, end_date |-> << <<"+", "2", "0", "d">> >>,
              generate_ics |-> g] : g \in BOOLEAN}

        \* a window whose times are not whole hours
        LayerHalf ==
            [id |-> "half",
             cfg |-> [name |-> "Half", rotation_team |-> <<pC>>,
                      time_windows |-> (DayNames[5] :> Win(<<"0", "8", ":", "3", "0">>,
                                                           <<"1", "1", ":", "4", "5">>))]]

        \* configurations for the exporters
        ExportScenarios ==
            {[today |-> Ymd2Ord(2026, 1, 5), disk |-> ConfigFile([name |-> "Export", layers |-> ls]),
              start_date |-> << D20260105 >>, end_date |-> << <<"+", "8", "d">> >>,
              generate_ics |-> g] :
                ls \in {<<LayerEarly,
                          [id |-> "backup",
                           cfg |-> [name |-> "Backup", rotation_team |-> <<pA>>,
                                    time_windows |-> (DayNames[1] :> Win(T("0", "8"), T("0", "9")))]]>>,
                        <<LayerHalf>>, <<LayerHalf, LayerEarly>>},
                g \in BOOLEAN}

        pJose1 == <<"J", "o", "s", "é", " ", "1">>

        \* clock times as int() accepts them: padded with whitespace, signed, and a
        \* negative hour
        LayerLoose ==
            [id |-> "loose",
             cfg |-> [name |-> "Loose", rotation_team |-> <<pJose1>>,
                      time_windows |-> (DayNames[1] :> Win(<<" ", "8", ":", "3", "0">>,
                                                           <<"+", "9", ":", "0", "5">>))
                                    @@ (DayNames[3] :> Win(<<"-", "1", ":", "3", "0">>,
                                                           <<"0", "8", ":", "0", "0">>))]]

        \* unusual clock times, and a range in a year of three digits
        EdgeScenarios ==
            {[today |-> Ymd2Ord(2026, 1, 5), disk |-> ConfigFile([name |-> "Edge", layers |-> ls]),
              start_date |-> << s >>, end_date |-> << <<"+", "8", "d">> >>,
              generate_ics |-> g] :
                ls \in {<<LayerLoose>>,
                        <<[id |-> "signed",
                           cfg |-> [name |-> "Signed", rotation_team |-> <<pJose1>>,
                                    time_windows |-> (DayNames[1] :> Win(<<" ", "8", ":", "3", "0">>,
                                                                         <<"+", "9", ":", "0", "5">>))]]>>},
                s \in {D20260105, <<"0", "9", "9", "9", "-", "0", "1", "-", "0", "7">>},
                g \in BOOLEAN}

        pLong == [i \in 1..126 |-> "é"]

        MondayTuesday(team) ==
            [id |-> "a",
             cfg |-> [name |-> "LA", rotation_team |-> team,
                      time_windows |-> (DayNames[1] :> Win(T("0", "8"), T("0", "9")))
                                    @@ (DayNames[2] :> Win(T("0", "8"), T("0", "9")))]]

        \* person names at the limit of a file name
        NameScenarios ==
            {[today |-> Ymd2Ord(2026, 1, 5), disk |-> ConfigFile([name |-> "Mine", layers |-> ls]),
              start_date |-> << D20260105 >>, end_date |-> << <<"+", "8", "d">> >>,
              generate_ics |-> g] :
                ls \in {<<MondayTuesday(<<pLong>>)>>, <<MondayTuesday(<<pA, pLong>>)>>,
                        <<MondayTuesday(<< [i \in 1..125 |-> "é"] \o <<"A">> >>)>>},
                g \in BOOLEAN}

        Scenarios ==
            NameScenarios \cup ArgScenarios \cup DefaultScenarios \cup LayerScenarios \cup ShapeScenarios
                \cup PaletteScenarios \cup ExportScenarios \cup EdgeScenarios

        \* the command line --config path [--start-date s] [--end-date e]
        \* [--generate-ics], start and end being <<>> for an option that is absent
        CommandLine(path, start, end, ics) ==
            <<[opt |-> "--config", val |-> <<path>>]>>
                \o (IF start = <<>> THEN <<>> ELSE <<[opt |-> "--start-date", val |-> start]>>)
                \o (IF end = <<>> THEN <<>> ELSE <<[opt |-> "--end-date", val |-> end]>>)
                \o (IF ics THEN <<[opt |-> "--generate-ics", val |-> <<>>]>> ELSE <<>>)

        \* command lines that argparse ends, or where an option is repeated
        LineRuns ==
            {[today |-> Ymd2Ord(2026, 1, 5),
              disk |-> ConfigFile([name |-> "Line", layers |-> <<MondayLayer>>]),
              argv |-> a] :
                a \in {<<>>,
                       <<[opt |-> "--help", val |-> <<>>]>>,
                       <<[opt |-> "--help", val |-> <<<<"1">>>>]>>,
                       <<[opt |-> "--generate-ics", val |-> <<>>]>>,
                       <<[opt |-> "--config", val |-> <<>>]>>,
                       <<[opt |-> "--config", val |-> <<SYaml>>], [opt |-> "--help", val |-> <<>>]>>,
                       <<[opt |-> "--verbose", val |-> <<>>], [opt |-> "--help", val |-> <<>>]>>,
                       <<[opt |-> "", val |-> <<SYaml>>], [opt |-> "--help", val |-> <<>>]>>,
                       <<[opt |-> "", val |-> <<SYaml>>]>>,
                       <<[opt |-> "--verbose", val |-> <<>>], [opt |-> "--config", val |-> <<SYaml>>]>>,
                       <<[opt |-> "--config", val |-> <<SYaml>>], [opt |-> "--start-date", val |-> <<>>],
                         [opt |-> "--help", val |-> <<>>]>>,
                       <<[opt |-> "--help", val |-> <<>>], [opt |-> "--start-date", val |-> <<>>]>>,
                       <<[opt |-> "--config", val |-> <<SYaml>>],
                         [opt |-> "--generate-ics", val |-> <<<<"1">>>>]>>,
                       <<[opt |-> "--config", val |-> <<<<"n", "o">>>>],
                         [opt |-> "--config", val |-> <<SYaml>>]>>,
                       <<[opt |-> "--generate-ics", val |-> <<>>],
                         [opt |-> "--start-date", val |-> <<D20260119>>],
                         [opt |-> "--config", val |-> <<SYaml>>],
                         [opt |-> "--start-date", val |-> <<D20260105>>],
                         [opt |-> "--end-date", val |-> <<D20260119>>],
                         [opt |-> "--generate-ics", val |-> <<>>]>>}}

        \* the content of a configuration file with shifts on Monday and Tuesday
        TwoDays == [schedule |-> [name |-> "Paths", layers |-> <<MondayTuesday(<<pA, pB>>)>>]]

        \* configuration paths and what the working directory holds: a path
        \* without extension, the empty path, a path in a directory, a file or a
        \* directory where an output goes, a name with ".xlsx" in it, names at the
        \* limit of the file system, a path that names a directory or nothing
        PathRuns ==
            {[today |-> Ymd2Ord(2026, 1, 5),
              disk |-> f.disk,
              argv |-> CommandLine(f.path, <<D20260105>>, <<<<"+", "8", "d">>>>, g)] :
                f \in {[path |-> <<"s", "c", "h", "e", "d", "u", "l", "e">>, disk |-> <<"s", "c", "h", "e", "d", "u", "l", "e">> :> File(TwoDays)],
                       [path |-> <<"s", "c", "h", "e", "d", "u", "l", "e">>, disk |-> EmptyDict],
                       [path |-> <<>>, disk |-> EmptyDict],
                       [path |-> <<".", "h", "i", "d", "d", "e", "n">>, disk |-> <<".", "h", "i", "d", "d", "e", "n">> :> File(TwoDays)],
                       [path |-> <<".", ".", "x", ".", "y", "a", "m", "l">>, disk |-> <<".", ".", "x", ".", "y", "a", "m", "l">> :> File(TwoDays)],
                       [path |-> <<"s", ".", "t", "a", "r", ".", "g", "z">>, disk |-> <<"s", ".", "t", "a", "r", ".", "g", "z">> :> File(TwoDays)],
                       [path |-> <<"c", "o", "n", "f", "/", "s", ".", "y", "a", "m", "l">>, disk |-> (<<"c", "o", "n", "f">> :> [kind |-> "dir"])
                                                        @@ (<<"c", "o", "n", "f", "/", "s", ".", "y", "a", "m", "l">> :> File(TwoDays))],
                       [path |-> <<".", "/", "s", ".", "y", "a", "m", "l">>, disk |-> SYaml :> File(TwoDays)],
                       [path |-> <<"s", ".", "y", "a", "m", "l", "/">>, disk |-> SYaml :> File(TwoDays)],
                       [path |-> <<"c", "o", "n", "f", "/">>, disk |-> <<"c", "o", "n", "f">> :> [kind |-> "dir"]],
                       [path |-> <<"n", "o", "/", "d", "i", "r", "/", "s", ".", "y", "a", "m", "l">>, disk |-> EmptyDict],
                       [path |-> SYaml, disk |-> (SYaml :> File(TwoDays)) @@ (<<"s">> :> File(EmptyDict))],
                       [path |-> SYaml, disk |-> (SYaml :> File(TwoDays)) @@ (<<"s">> :> [kind |-> "dir"])],
                       [path |-> SYaml, disk |-> (SYaml :> File(TwoDays)) @@ (<<"s">> :> [kind |-> "dir"])
                                                    @@ (<<"s", "/", "i", "c", "s", "_", "f", "i", "l", "e", "s">> :> File(EmptyDict))],
                       [path |-> SYaml, disk |-> (SYaml :> File(TwoDays)) @@ (<<"s">> :> [kind |-> "dir"])
                                                    @@ (<<"s", "/", "s", ".", "x", "l", "s", "x">> :> [kind |-> "dir"])],
                       [path |-> SYaml, disk |-> (SYaml :> File(TwoDays)) @@ (<<"s">> :> [kind |-> "dir"])
                                                    @@ (<<"s", "/", "s", ".", "p", "n", "g">> :> [kind |-> "dir"])],
                       [path |-> SYaml, disk |-> (SYaml :> File(TwoDays)) @@ (<<"s">> :> [kind |-> "dir"])
                                                    @@ (<<"s", "/", "i", "c", "s", "_", "f", "i", "l", "e", "s">> :> [kind |-> "dir"])
                                                    @@ (<<"s", "/", "i", "c", "s", "_", "f", "i", "l", "e", "s", "/", "A", ".", "i", "c", "s">> :> [kind |-> "dir"])],
                       [path |-> <<"d", ".", "y", "a", "m", "l">>, disk |-> <<"d", ".", "y", "a", "m", "l">> :> [kind |-> "dir"]],
                       [path |-> <<"a", ".", "x", "l", "s", "x", ".", "y", "a", "m", "l">>, disk |-> <<"a", ".", "x", "l", "s", "x", ".", "y", "a", "m", "l">> :> File(TwoDays)],
                       [path |-> <<"a", ".", "x", "l", "s", "x", ".", "y", "a", "m", "l">>, disk |-> (<<"a", ".", "x", "l", "s", "x", ".", "y", "a", "m", "l">> :> File(TwoDays))
                                                        @@ (<<"a", ".", "p", "n", "g">> :> [kind |-> "dir"])],
                       [path |-> [i \in 1..251 |-> "A"] \o <<".", "y", "m", "l">>,
                        disk |-> ([i \in 1..251 |-> "A"] \o <<".", "y", "m", "l">>) :> File(TwoDays)],
                       [path |-> [i \in 1..250 |-> "A"] \o <<".", "y", "m", "l">>,
                        disk |-> ([i \in 1..250 |-> "A"] \o <<".", "y", "m", "l">>) :> File(TwoDays)],
                       [path |-> [i \in 1..256 |-> "A"], disk |-> EmptyDict]},
                g \in BOOLEAN}

        \* a layer with one window on Monday
        ClockLayer(start, end) ==
            [id |-> "clock",
             cfg |-> [name |-> "Clock", rotation_team |-> <<pA>>,
                      time_windows |-> (DayNames[1] :> Win(start, end))]]

        \* numbers past the ranges of the C int, of the float, of the date and of
        \* the conversion of strings: as hours and minutes of a window, and as the
        \* amount of --start-date
        NumberRuns ==
            {[today |-> Ymd2Ord(2026, 1, 5),
              disk |-> ConfigFile([name |-> "Numbers", layers |-> <<ClockLayer(w[1], w[2])>>]),
              argv |-> CommandLine(SYaml, <<D20260105>>, <<<<"+", "8", "d">>>>, g)] :
                w \in {<<<<"9", "0", "0", "7", "1", "9", "9", "2", "5", "4", "7", "4", "0", "9", "9", "3", ":", "0">>, <<"9", "0", "0", "7", "1", "9", "9", "2", "5", "4", "7", "4", "0", "9", "9", "3", ":", "0">>>>,
                       <<<<"2", "1", "4", "7", "4", "8", "3", "6", "4", "8", ":", "0", "0">>, T("0", "8")>>,
                       <<<<"2", "4", ":", "2", "1", "4", "7", "4", "8", "3", "6", "4", "8">>, T("0", "8")>>,
                       <<<<"-", "2", "1", "4", "7", "4", "8", "3", "6", "4", "9", ":", "0", "0">>, T("0", "9")>>,
                       <<T("0", "0"), <<"2", "0", "0", "0", "0", "0", "0", ":", "0", "0">>>>,
                       <<T("0", "8"), <<"1">> \o [i \in 1..309 |-> "0"] \o <<":", "0", "0">>>>,
                       <<T("0", "8"), <<"0", ":">> \o [i \in 1..309 |-> "9"]>>,
                       <<T("0", "8"), <<"1">> \o [i \in 1..308 |-> "0"] \o <<":">>
                                          \o [i \in 1..294 |-> "9"]>>,
                       <<T("0", "8"), <<"0", "9", ":">> \o [i \in 1..4301 |-> "0"]>>},
                g \in BOOLEAN}
            \cup
            {[today |-> Ymd2Ord(2026, 1, 5),
              disk |-> ConfigFile([name |-> "Numbers", layers |-> <<MondayLayer>>]),
              argv |-> CommandLine(SYaml, <<s>>, <<>>, FALSE)] :
                s \in {<<"+", "4", "0", "0", "0", "0", "0", "0", "0", "0", "0">>, <<"+", "9", "9", "9", "9", "9", "9", "9", "9", "9", "d">>, <<"+", "1", "4", "2", "8", "5", "7", "1", "4", "3", "w">>, <<"+", "2", "1", "4", "7", "4", "8", "1", "6", "2", "1", "y">>, <<"+", "2", "1", "4", "7", "4", "8", "1", "6", "2", "2", "y">>, <<"+", "2", "5", "7", "6", "9", "7", "7", "9", "4", "6", "3", "m">>, <<"+", "2", "5", "7", "6", "9", "7", "7", "9", "4", "6", "4", "m">>, <<"+", "0", "0", "0", "0", "0", "0", "0", "0", "0", "0", "1", "d">>,
                       <<"+">> \o [i \in 1..4300 |-> "9"] \o <<"d">>,
                       <<"+">> \o [i \in 1..4300 |-> "0"] \o <<"1", "d">>}}
    IN
        {[today |-> sc.today,
          disk |-> sc.disk,
          argv |-> CommandLine(SYaml, sc.start_date, sc.end_date, sc.generate_ics)] :
            sc \in Scenarios}
        \cup LineRuns \cup PathRuns \cup NumberRuns

(***************************************************************************)
(* State                                                                   *)
(***************************************************************************)
VARIABLES
    argv,          \* the command line: the options with their values
    disk,          \* the files and directories under the working directory
    args,          \* main, line 696: the namespace of parse_args
    today,         \* the date of the clock when it was last read
    pc,            \* main's position
    start_date,    \* main: None (<<>>) or the parsed --start-date
    end_date,      \* main: None (<<>>) or the parsed --end-date
    reference,     \* main, line 721: <<>> or the reference of --end-date
    period,        \* <<>>, or <<[start, end]>> from calculate_date_range
    layer_idx,     \* the next layer of the loop of line 267
    dates,         \* generate_dates_for_layer of the current layer
    date_idx,      \* the position counter of line 283
    layer_shifts,  \* the list of line 265
    row_idx,       \* the shifts written as rows so far (loop of line 330)
    row,           \* the worksheet row of line 233
    sheet_rows,    \* the data rows of the workbook in memory
    person_colors, \* the mapping of line 325
    color_idx,     \* the counter of line 326
    xlsx_file,     \* the spreadsheet on disk
    png_file,      \* the timeline image on disk
    ics_files,     \* the calendar feeds on disk, by file name
    person_idx,    \* the feeds written so far (loop of line 577)
    out,           \* what was printed
    exit_code      \* <<>> while running, else <<status>> of exit(main()), line 760

vars == <<argv, disk, args, today, pc, start_date, end_date, reference, period, layer_idx, dates, date_idx,
          layer_shifts, row_idx, row, sheet_rows, person_colors, color_idx,
          xlsx_file, png_file, ics_files, person_idx, out, exit_code>>

mainVars == <<start_date, end_date, reference>>

calendarVars == <<period, layer_idx, dates, date_idx, layer_shifts, row_idx, row,
                  sheet_rows, person_colors, color_idx, xlsx_file>>

exportVars == <<png_file, ics_files, person_idx>>

Absent == [state |-> "absent"]

Init ==
    /\ \E run \in Runs :
          /\ argv = run.argv
          /\ disk = run.disk
          /\ today = run.today
    /\ args = Defaults
    /\ pc = "parse_args"
    /\ start_date = <<>>
    /\ end_date = <<>>
    /\ reference = <<>>
    /\ period = <<>>
    /\ layer_idx = 0
    /\ dates = <<>>
    /\ date_idx = 0
    /\ layer_shifts = <<>>
    /\ row_idx = 0
    /\ row = 1
    /\ sheet_rows = <<>>
    /\ person_colors = EmptyDict
    /\ color_idx = 0
    /\ xlsx_file = Absent
    /\ png_file = Absent
    /\ ics_files = EmptyDict
    /\ person_idx = 0
    /\ out = <<>>
    /\ exit_code = <<>>

\* the layers mapping, in declaration order
layers_config == Get(load_schedule_config(Lookup(disk, args.config[1])).val, "layers", <<>>)

\* lines 699-700
output_dir == SplitextRoot(Basename(args.config[1]))

\* line 704
output_file == PathJoin(output_dir, output_dir \o <<".", "x", "l", "s", "x">>)

\* line 736
visual_output ==
    Replace(output_file, <<".", "x", "l", "s", "x">>, <<".", "p", "n", "g">>)

\* line 573
ics_dir == PathJoin(output_dir, <<"i", "c", "s", "_", "f", "i", "l", "e", "s">>)

\* os.makedirs(path, exist_ok=True) went through: the disk with the directory
MadeDir(d, path) ==
    IF Entry(d, Names(path)).kind = "dir" THEN d
    ELSE (Join(Names(path), <<"/">>) :> [kind |-> "dir"]) @@ d

\* a main that returns 0 whatever happened
ReturnZero(code) == pc' = "exit" /\ exit_code' = <<0>>

\* main returns code, which line 760 makes the exit status
Return(code) == pc' = "exit" /\ exit_code' = <<code>>

\* an exception reaches one of main's handlers: one line, return 1
Caught(e) ==
    /\ out' = Append(out, [kind |-> "error", exc |-> e.exc, detail |-> e])
    /\ Return(1)

\* lines 750-754: any other exception inside the try of line 729: the line
\* 'Error generating schedule', the traceback on stderr, return 1
CaughtWithTraceback(e) ==
    /\ out' = Append(out, [kind |-> "error_traceback", exc |-> e.exc, detail |-> e])
    /\ Return(1)

\* lines 744-754: the handlers of the try of line 729
Handled(e) ==
    IF e.exc \in {"FileNotFoundError", "ValueError"} THEN Caught(e)
    ELSE CaughtWithTraceback(e)

\* an exception no handler of main catches: main does not return, the
\* interpreter prints the traceback and the exit status is 1
Uncaught(e) ==
    /\ out' = Append(out, [kind |-> "traceback", exc |-> e.exc, detail |-> e, at |-> pc])
    /\ pc' = "exit"
    /\ exit_code' = <<1>>

\* the handlers of lines 714 and 724 catch ValueError only
DateArgFailed(e) == IF e.exc = "ValueError" THEN Caught(e) ELSE Uncaught(e)

\* datetime.now() at midnight, the clock having shown the date t when it
\* was last read: midnight may have passed since
Now(t) == t..(t + MaxClockStep)

\* bool(s) of an optional string argument
Truthy(arg) == arg /= <<>> /\ arg[1] /= <<>>

(***************************************************************************)
(* main, lines 652-704                                                     *)
(***************************************************************************)
\* line 696: the namespace is filled, or argparse ends the run: with the
\* usage message and status 2, or for --help with the help text and status 0
ArgsParsed(r) ==
    IF r.ok
    THEN /\ args' = r.val
         /\ pc' = "makedirs"
         /\ UNCHANGED <<out, exit_code>>
    ELSE /\ out' = Append(out, [kind |-> r.msg])
         /\ pc' = "exit"
         /\ exit_code' = <<r.code>>
         /\ UNCHANGED args

ParseArgs ==
    /\ pc = "parse_args"
    /\ ArgsParsed(parse_args(argv))
    /\ UNCHANGED <<argv, disk, today, mainVars, calendarVars, exportVars>>

\* line 701, err being the error of os.makedirs: it is raised outside every
\* try of main
OutputDirMade(err) ==
    IF err /= <<>>
    THEN Uncaught(err[1]) /\ UNCHANGED disk
    ELSE /\ disk' = MadeDir(disk, output_dir)
         /\ pc' = "parse_start"
         /\ UNCHANGED <<out, exit_code>>

\* lines 699-704
MakeOutputDir ==
    /\ pc = "makedirs"
    /\ OutputDirMade(CreateError(disk, output_dir, "dir"))
    /\ UNCHANGED <<argv, args, today, mainVars, calendarVars, exportVars>>

(***************************************************************************)
(* main, lines 706-726                                                     *)
(***************************************************************************)
\* lines 712-716, r being the result of parse_date_argument
StartParsed(r) ==
    IF r.ok
    THEN /\ start_date' = <<r.val>>
         /\ out' = Append(out, [kind |-> "info", msg |-> "Start date"])
         /\ pc' = "parse_end"
         /\ UNCHANGED exit_code
    ELSE /\ DateArgFailed(r)
         /\ UNCHANGED start_date

\* lines 710-716: parse_date_argument reads the clock at line 51
ParseStartDate ==
    /\ pc = "parse_start"
    /\ IF Truthy(args.start_date)
       THEN \E now \in Now(today) :
               /\ today' = now
               /\ StartParsed(parse_date_argument(args.start_date[1], now))
       ELSE /\ pc' = "parse_end"
            /\ UNCHANGED <<today, start_date, out, exit_code>>
    /\ UNCHANGED <<argv, disk, args, end_date, reference, calendarVars, exportVars>>

\* lines 722-726, r being the result of parse_date_argument
EndParsed(r) ==
    IF r.ok
    THEN /\ end_date' = <<r.val>>
         /\ out' = Append(out, [kind |-> "info", msg |-> "End date"])
         /\ pc' = "load"
         /\ UNCHANGED exit_code
    ELSE /\ DateArgFailed(r)
         /\ UNCHANGED end_date

\* lines 721-722 with the reference date ref
ParseEndFrom(ref) ==
    /\ reference' = <<ref>>
    /\ EndParsed(parse_date_argument(args.end_date[1], ref))

\* lines 718-726: line 721 reads the clock when there is no start date
ParseEndDate ==
    /\ pc = "parse_end"
    /\ IF Truthy(args.end_date)
       THEN IF start_date /= <<>>
            THEN ParseEndFrom(start_date[1]) /\ UNCHANGED today
            ELSE \E now \in Now(today) : today' = now /\ ParseEndFrom(now)
       ELSE /\ pc' = "load"
            /\ UNCHANGED <<today, end_date, reference, out, exit_code>>
    /\ UNCHANGED <<argv, disk, args, start_date, calendarVars, exportVars>>

(***************************************************************************)
(* generate_oncall_calendar                                                *)
(***************************************************************************)
\* lines 199-262 for the range r of calculate_date_range
RangeResolved(sc, r) ==
    IF ~r.ok
    THEN Handled(r) /\ UNCHANGED <<period, row>>
    ELSE IF Get(sc.val, "layers", <<>>) = <<>>
    THEN /\ Handled(Raise("ValueError", "No layers defined in configuration file"))
         /\ period' = <<r.val>>
         /\ UNCHANGED row
    ELSE /\ period' = <<r.val>>
         /\ row' = row + 5
         /\ pc' = "layers"
         /\ UNCHANGED <<out, exit_code>>

\* does calculate_date_range reach line 130
ReadsClock(schedule_config) ==
    start_date = <<>> /\ Get(schedule_config, "start_date", <<>>) = <<>>

\* lines 195-262 for the loaded configuration sc
ConfigLoaded(sc) ==
    IF ~sc.ok
    THEN Handled(sc) /\ UNCHANGED <<today, period, row>>
    ELSE \E now \in (IF ReadsClock(sc.val) THEN Now(today) ELSE {today}) :
            /\ today' = now
            /\ RangeResolved(sc, calculate_date_range(sc.val, start_date, end_date, now))

\* lines 195-262: load, range, layers check, sheet header
LoadConfig ==
    /\ pc = "load"
    /\ ConfigLoaded(load_schedule_config(Lookup(disk, args.config[1])))
    /\ UNCHANGED <<argv, disk, args, mainVars, layer_idx, dates, date_idx, layer_shifts,
                   row_idx, sheet_rows, person_colors, color_idx, xlsx_file, exportVars>>

\* the loop of line 267 without the check of lines 272-273
BeginLayerNoTeamCheck ==
    /\ pc = "layers"
    /\ layer_idx < Len(layers_config)
    /\ dates' = generate_dates_for_layer(layers_config[layer_idx + 1].cfg,
                                         period[1].start, period[1].end)
    /\ date_idx' = 0
    /\ pc' = "assign"
    /\ UNCHANGED <<argv, disk, args, today, mainVars, period, layer_idx, layer_shifts, row_idx, row,
                   sheet_rows, person_colors, color_idx, xlsx_file, exportVars, out,
                   exit_code>>

\* lines 267-280: the next layer; an empty team is skipped
BeginLayer ==
    /\ pc = "layers"
    /\ layer_idx < Len(layers_config)
    /\ LET layer == layers_config[layer_idx + 1]
       IN IF Get(layer.cfg, "rotation_team", <<>>) = <<>>
          THEN /\ layer_idx' = layer_idx + 1
               /\ UNCHANGED <<pc, dates, date_idx>>
          ELSE /\ dates' = generate_dates_for_layer(layer.cfg, period[1].start, period[1].end)
               /\ date_idx' = 0
               /\ pc' = "assign"
               /\ UNCHANGED layer_idx
    /\ UNCHANGED <<argv, disk, args, today, mainVars, period, layer_shifts, row_idx, row, sheet_rows,
                   person_colors, color_idx, xlsx_file, exportVars, out, exit_code>>

\* lines 283-306: one enumerated date
AssignShift ==
    /\ pc = "assign"
    /\ date_idx < Len(dates)
    /\ layer_shifts' = layer_shifts
                         \o ShiftFor(layers_config[layer_idx + 1], layer_idx, dates, date_idx)
    /\ date_idx' = date_idx + 1
    /\ UNCHANGED <<argv, disk, args, today, pc, mainVars, period, layer_idx, dates, row_idx, row,
                   sheet_rows, person_colors, color_idx, xlsx_file, exportVars, out,
                   exit_code>>

\* the loop of line 283 ends
EndLayer ==
    /\ pc = "assign"
    /\ date_idx = Len(dates)
    /\ layer_idx' = layer_idx + 1
    /\ pc' = "layers"
    /\ UNCHANGED <<argv, disk, args, today, mainVars, period, dates, date_idx, layer_shifts, row_idx,
                   row, sheet_rows, person_colors, color_idx, xlsx_file, exportVars, out,
                   exit_code>>

\* lines 308-322: the sort and the column headers
SortAndHeaders ==
    /\ pc = "layers"
    /\ layer_idx = Len(layers_config)
    /\ layer_shifts' = SortShifts(layer_shifts)
    /\ row' = row + 1
    /\ pc' = "rows"
    /\ UNCHANGED <<argv, disk, args, today, mainVars, period, layer_idx, dates, date_idx, row_idx,
                   sheet_rows, person_colors, color_idx, xlsx_file, exportVars, out,
                   exit_code>>

\* lines 330-379: one data row
WriteRow ==
    /\ pc = "rows"
    /\ row_idx < Len(layer_shifts)
    /\ LET shift == layer_shifts[row_idx + 1]
           gap == IF row_idx > 0 /\ layer_shifts[row_idx].date /= shift.date THEN 1 ELSE 0
           fresh == shift.person \notin DOMAIN person_colors
           pcs == IF fresh
                  THEN person_colors @@ (shift.person :> PaletteColor(color_idx))
                  ELSE person_colors
           time_parts == Split(shift.time_window, Sep)
       IN /\ person_colors' = pcs
          /\ color_idx' = IF fresh THEN color_idx + 1 ELSE color_idx
          /\ sheet_rows' = Append(sheet_rows,
                 [row |-> row + gap,
                  date |-> shift.date,
                  start_time |-> time_parts[1],
                  end_time |-> IF Len(time_parts) > 1 THEN time_parts[2] ELSE NA,
                  person |-> shift.person,
                  color |-> pcs[shift.person]])
          /\ row' = row + gap + 1
    /\ row_idx' = row_idx + 1
    /\ UNCHANGED <<argv, disk, args, today, pc, mainVars, period, layer_idx, dates, date_idx,
                   layer_shifts, xlsx_file, exportVars, out, exit_code>>

\* line 391, err being the error of wb.save, and lines 393-406: the summary
WorkbookSaved(err) ==
    IF err /= <<>>
    THEN Handled(err[1]) /\ UNCHANGED xlsx_file
    ELSE /\ xlsx_file' = [state |-> "complete", rows |-> sheet_rows]
         /\ out' = Append(out, [kind |-> "info", msg |-> "schedule generated",
                                total_shifts |-> Len(layer_shifts),
                                unique_people |-> Cardinality(DOMAIN person_colors)])
         /\ pc' = "visual"
         /\ UNCHANGED exit_code

\* lines 381-406: save the workbook, print the summary, return
SaveWorkbook ==
    /\ pc = "rows"
    /\ row_idx = Len(layer_shifts)
    /\ WorkbookSaved(CreateError(disk, output_file, "file"))
    /\ UNCHANGED <<argv, disk, args, today, mainVars, period, layer_idx, dates, date_idx,
                   layer_shifts, row_idx, row, sheet_rows, person_colors, color_idx,
                   exportVars>>

(***************************************************************************)
(* generate_visual_schedule and main, lines 730-742                        *)
(***************************************************************************)
\* line 426
viz_shifts ==
    LET Test(x) == x.date < period[1].end
    IN SelectSeq(layer_shifts, Test)

\* main, lines 741-756, after generate_visual_schedule
VisualDone ==
    IF args.generate_ics
    THEN pc' = "ics_dir" /\ UNCHANGED exit_code
    ELSE Return(0)

\* line 549, err being the error of savefig
FigureSaved(layout, err) ==
    IF err /= <<>>
    THEN Handled(err[1]) /\ UNCHANGED png_file
    ELSE /\ png_file' = [state |-> "complete", layout |-> layout]
         /\ out' = Append(out, [kind |-> "info", msg |-> "Visual schedule generated"])
         /\ VisualDone

\* do the lists of lines 522-523, one entry per hour from min_time to
\* max_time, surely fit the memory
TicksFit(layout) ==
    IF layout.exact THEN layout.max_time - layout.min_time <= 1000000 ELSE layout.one_tick

\* lines 432-553: the timeline is drawn and saved, or the exception of the
\* layout reaches main; lists that may not fit the memory raise MemoryError
\* or not
DrawLayout(layout) ==
    IF ~layout.ok
    THEN Handled(layout) /\ UNCHANGED png_file
    ELSE \/ FigureSaved(layout.val, CreateError(disk, visual_output, "file"))
         \/ /\ ~TicksFit(layout.val)
            /\ Handled(Raise("MemoryError", ""))
            /\ UNCHANGED png_file

\* lines 735-738, generate_visual_schedule
GenerateVisual ==
    /\ pc = "visual"
    /\ IF viz_shifts = <<>>
       THEN /\ out' = Append(out, [kind |-> "info", msg |-> "No shifts to visualize"])
            /\ UNCHANGED png_file
            /\ VisualDone
       ELSE \E infinite \in Infinities(viz_shifts) :
               DrawLayout(VisualLayout(viz_shifts, infinite))
    /\ UNCHANGED <<argv, disk, args, today, mainVars, calendarVars, ics_files, person_idx>>

(***************************************************************************)
(* generate_ics_files                                                      *)
(***************************************************************************)
\* the file open(ics_file, 'w') leaves: every event when all were written,
\* else the header and the events before the failing one
FeedFile(person, w) ==
    [state |-> IF w.complete THEN "complete" ELSE "partial",
     person |-> person,
     events |-> w.events]

\* lines 585-639: the file is opened and written; an exception leaves it as
\* it is and reaches main
StoreFeed(person, w) ==
    /\ ics_files' = (SafeFilename(person) :> FeedFile(person, w)) @@ ics_files
    /\ IF w.complete
       THEN /\ person_idx' = person_idx + 1
            /\ UNCHANGED <<pc, out, exit_code>>
       ELSE /\ Handled(w.error[1])
            /\ UNCHANGED person_idx

\* lines 577-639 for one person, err being the error of open(ics_file, 'w'):
\* a file that cannot be opened is not created, and the error reaches main
WriteFeed(person, err) ==
    IF err /= <<>>
    THEN /\ Handled(err[1])
         /\ UNCHANGED <<ics_files, person_idx>>
    ELSE StoreFeed(person, WriteEvents(ShiftsOf(layer_shifts, person), person))

\* line 583
ics_file(person) == PathJoin(ics_dir, SafeFilename(person) \o <<".", "i", "c", "s">>)

\* lines 573-574, err being the error of os.makedirs
IcsDirMade(err) ==
    IF err /= <<>>
    THEN Handled(err[1]) /\ UNCHANGED disk
    ELSE /\ disk' = MadeDir(disk, ics_dir)
         /\ pc' = "ics"
         /\ UNCHANGED <<out, exit_code>>

\* lines 567-574: the directory of the feeds
MakeIcsDir ==
    /\ pc = "ics_dir"
    /\ IcsDirMade(CreateError(disk, ics_dir, "dir"))
    /\ UNCHANGED <<argv, args, today, mainVars, calendarVars, exportVars>>

\* line 577: the next person of shifts_by_person
WriteIcsFile ==
    /\ pc = "ics"
    /\ person_idx < Len(PersonsInOrder(layer_shifts))
    /\ WriteFeed(PersonsInOrder(layer_shifts)[person_idx + 1],
                 CreateError(disk, ics_file(PersonsInOrder(layer_shifts)[person_idx + 1]),
                             "file"))
    /\ UNCHANGED <<argv, disk, args, today, mainVars, calendarVars, png_file>>

\* lines 641-648, and main returns 0
FinishIcs ==
    /\ pc = "ics"
    /\ person_idx = Len(PersonsInOrder(layer_shifts))
    /\ out' = Append(out, [kind |-> "info", msg |-> "ICS files generated",
                           files |-> Len(PersonsInOrder(layer_shifts))])
    /\ Return(0)
    /\ UNCHANGED <<argv, disk, args, today, mainVars, calendarVars, exportVars>>

Next ==
    \/ ParseArgs
    \/ MakeOutputDir
    \/ ParseStartDate
    \/ ParseEndDate
    \/ LoadConfig
    \/ BeginLayer
    \/ AssignShift
    \/ EndLayer
    \/ SortAndHeaders
    \/ WriteRow
    \/ SaveWorkbook
    \/ GenerateVisual
    \/ MakeIcsDir
    \/ WriteIcsFile
    \/ FinishIcs

Spec == Init /\ [][Next]_vars

(***************************************************************************)
(* Properties                                                              *)
(***************************************************************************)
\* the configuration was loaded and the range resolved
Loaded == period /= <<>>

\* the sort of line 309 has run
Sorted == pc \in {"rows", "visual", "ics_dir", "ics"} \/ (pc = "exit" /\ xlsx_file /= Absent)

\* a layer with every dummy flag removed
WithoutDummies(layer) ==
    LET c == layer.cfg
        Plain(w) == [k \in DOMAIN w \ {"dummy"} |-> w[k]]
    IN [id |-> layer.id,
        cfg |-> [k \in DOMAIN c \ {"dummy"} |->
                    IF k = "time_windows"
                    THEN [d \in DOMAIN c.time_windows |-> Plain(c.time_windows[d])]
                    ELSE c[k]]]

\* the shifts of layer_shifts that came from layer index li
IndicesOfLayer(li) == {n \in 1..Len(layer_shifts) : layer_shifts[n].layer_idx = li}

\* C1: every materialized shift of a layer with a team of size k holds
\* rotation_team[i mod k], i being the 0-based position of its date in the
\* layer's enumerated date sequence (dummy dates counted); the same person is
\* assigned to that date when no date of the configuration is dummy.
C1_RotationByPosition ==
    Loaded =>
        \A li \in 0..(Len(layers_config) - 1) :
            LET layer == layers_config[li + 1]
                team == Get(layer.cfg, "rotation_team", <<>>)
                ds == generate_dates_for_layer(layer.cfg, period[1].start, period[1].end)
                plain == LayerShifts(WithoutDummies(layer), li, period[1].start, period[1].end)
            IN \A n \in IndicesOfLayer(li) :
                  /\ \E i \in 1..Len(ds) :
                        /\ ds[i].date = layer_shifts[n].date
                        /\ layer_shifts[n].person = team[((i - 1) % Len(team)) + 1]
                  /\ \E m \in 1..Len(plain) :
                        /\ plain[m].date = layer_shifts[n].date
                        /\ plain[m].person = layer_shifts[n].person

\* a shift at a position past one full rotation, after a date dropped as dummy
C1_Witness ==
    /\ pc = "exit"
    /\ Loaded
    /\ \E n \in 1..Len(layer_shifts) :
          LET layer == layers_config[layer_shifts[n].layer_idx + 1]
              ds == generate_dates_for_layer(layer.cfg, period[1].start, period[1].end)
          IN \E i \in 1..Len(ds) :
                /\ ds[i].date = layer_shifts[n].date
                /\ i > Len(layer.cfg.rotation_team)
                /\ Len(layer.cfg.rotation_team) > 1
                /\ \E j \in 1..(i - 1) : DayWindow(layer.cfg, ds[j].day_name).is_dummy_day

\* the weekday keys of a layer's time_windows that generate_dates_for_layer
\* accepts for the weekday of date d
AcceptedKeys(layer_config, d) ==
    {k \in DOMAIN Get(layer_config, "time_windows", EmptyDict) :
        InDayMap(Lower(k)) /\ day_map(Lower(k)) = Weekday(d)}

\* C2: no shift of the aggregated schedule comes from a layer with dummy: true
\* or from a weekday window with dummy: true, the weekday keys matched
\* case-insensitively as generate_dates_for_layer matches them.
C2_NoDummyShift ==
    Loaded =>
        \A n \in 1..Len(layer_shifts) :
            LET layer_config == layers_config[layer_shifts[n].layer_idx + 1].cfg
            IN /\ ~Get(layer_config, "dummy", FALSE)
               /\ \A k \in AcceptedKeys(layer_config, layer_shifts[n].date) :
                     ~Get(layer_config.time_windows[k], "dummy", FALSE)

\* a clock time in two-digit HH:MM form
IsHHMM(s) ==
    /\ Len(s) = 5
    /\ IsDigit(s[1]) /\ IsDigit(s[2]) /\ s[3] = ":" /\ IsDigit(s[4]) /\ IsDigit(s[5])

\* the window start time of a shift
StartOf(shift) == Split(shift.time_window, Sep)[1]

AllHHMM ==
    \A n \in 1..Len(layer_shifts) :
        LET parts == Split(layer_shifts[n].time_window, Sep)
        IN Len(parts) = 2 /\ IsHHMM(parts[1]) /\ IsHHMM(parts[2])

\* C3: after the sort, with window times in HH:MM form, adjacent shifts are
\* non-decreasing in (date, start time string), and sorting again changes nothing.
C3_SortedByDateAndStart ==
    (Sorted /\ AllHHMM) =>
        /\ \A n \in 1..(Len(layer_shifts) - 1) :
              \/ layer_shifts[n].date < layer_shifts[n + 1].date
              \/ /\ layer_shifts[n].date = layer_shifts[n + 1].date
                 /\ ~StrLess(StartOf(layer_shifts[n + 1]), StartOf(layer_shifts[n]))
        /\ SortShifts(layer_shifts) = layer_shifts

\* the sort moved a shift: two shifts of one date, the later layer's first
C3_Witness ==
    /\ pc = "exit"
    /\ Sorted
    /\ AllHHMM
    /\ \E n \in 1..(Len(layer_shifts) - 1) :
          /\ layer_shifts[n].date = layer_shifts[n + 1].date
          /\ StrLess(StartOf(layer_shifts[n]), StartOf(layer_shifts[n + 1]))
          /\ layer_shifts[n].layer_idx > layer_shifts[n + 1].layer_idx

\* C4: after the sort, two shifts with the same date and the same window start
\* time are in layer-declaration order, whatever their end times.
C4_TieInLayerOrder ==
    Sorted =>
        \A n, m \in 1..Len(layer_shifts) :
            (/\ n < m
             /\ layer_shifts[n].date = layer_shifts[m].date
             /\ StartOf(layer_shifts[n]) = StartOf(layer_shifts[m]))
                => layer_shifts[n].layer_idx < layer_shifts[m].layer_idx

\* how many distinct persons appear in the first n shifts
SeenCount(n) == Cardinality({layer_shifts[j].person : j \in 1..n})

\* the distinct persons of the first n shifts, in order of first appearance:
\* the person at position i first appears right after i - 1 distinct persons
FirstSeen(n) ==
    [i \in 1..SeenCount(n) |->
        layer_shifts[CHOOSE j \in 1..n : SeenCount(j) = i /\ SeenCount(j - 1) = i - 1].person]

\* C5: the n-th distinct person (0-based, by first appearance in the sorted
\* schedule) has colour palette[n mod palette_size]; the colour written in
\* every earlier row of a person is the colour the map holds now; the finished
\* map covers exactly the persons of the schedule computed from the
\* configuration and the range.
C5_ColorByFirstAppearance ==
    Sorted =>
        LET seen == FirstSeen(row_idx)
        IN /\ DOMAIN person_colors = Range(seen)
           /\ \A i \in 1..Len(seen) :
                 person_colors[seen[i]] = colors[((i - 1) % Len(colors)) + 1]
           /\ \A r \in 1..Len(sheet_rows) :
                 sheet_rows[r].color = person_colors[sheet_rows[r].person]
           /\ xlsx_file /= Absent =>
                 LET final == AggregatedSchedule(layers_config, period[1].start, period[1].end)
                 IN /\ layer_shifts = final
                    /\ DOMAIN person_colors = {final[i].person : i \in 1..Len(final)}

\* more persons than palette entries: the palette was reused
C5_Witness ==
    /\ pc = "exit"
    /\ xlsx_file /= Absent
    /\ Cardinality(DOMAIN person_colors) > Len(colors)
    /\ \E r1, r2 \in 1..Len(sheet_rows) :
          /\ r1 < r2
          /\ sheet_rows[r1].person = sheet_rows[r2].person

\* something was reported as an error
ReportedError ==
    \E i \in 1..Len(out) : out[i].kind \in {"error", "error_traceback", "traceback"}

\* main returned: the run was not ended by argparse (usage error or help)
\* nor by an exception that no handler of main catches
Returned ==
    /\ pc = "exit"
    /\ out[Len(out)].kind \notin {"usage", "help", "traceback"}

\* what --config names
Config == Lookup(disk, args.config[1])

NotFound == Config.kind = "none"

BadShape ==
    /\ Config.kind = "file"
    /\ \/ "schedule" \notin DOMAIN Config.content
       \/ Get(Config.content.schedule, "layers", <<>>) = <<>>

\* a non-empty --start-date that parse_date_argument rejects
BadStartArg ==
    Truthy(args.start_date) /\ ~parse_date_argument(args.start_date[1], today).ok

\* the reference date main passes for --end-date
EndReference == reference[1]

\* a non-empty --end-date that parse_date_argument rejects
BadEndArg ==
    /\ ~BadStartArg
    /\ Truthy(args.end_date)
    /\ ~parse_date_argument(args.end_date[1], EndReference).ok

\* the run got through generate_oncall_calendar and produced no shift
NoShifts == xlsx_file /= Absent /\ layer_shifts = <<>>

\* C6 as stated: main returns 1 on every reported error, a run that produces
\* no shifts included, and 0 only on success.
C6_NoShiftsIsAnError ==
    Returned =>
        /\ (NotFound \/ BadShape \/ BadStartArg \/ BadEndArg \/ layer_shifts = <<>>)
              => exit_code = <<1>>
        /\ exit_code = <<0>> => ~ReportedError

\* argparse ended the run at line 696: a usage error or --help
ArgparseEnded == pc = "exit" /\ out[1].kind \in {"usage", "help"}

\* no output file was written
NothingWritten ==
    xlsx_file = Absent /\ png_file = Absent /\ ics_files = EmptyDict

\* C6, amended: the exit status of a run is 2 when argparse rejects the
\* command line and 0 when it prints the help, nothing being written in
\* either case.  Of any other run it is 1 on every reported error: a missing
\* file, a missing 'schedule' key, no layers, a non-empty date expression
\* that parse_date_argument rejects, any exception raised while the outputs
\* are generated, and any exception that leaves main; it is 0 only with the
\* spreadsheet written and no error reported; a run that produces no shifts
\* is not an error and ends with 0 unless an error was reported.
C6_ExitCode ==
    pc = "exit" =>
        IF ArgparseEnded
        THEN /\ exit_code = (IF out[1].kind = "help" THEN <<0>> ELSE <<2>>)
             /\ NothingWritten
        ELSE /\ (NotFound \/ BadShape \/ BadStartArg) => exit_code = <<1>>
             /\ (reference /= <<>> /\ BadEndArg) => exit_code = <<1>>
             /\ ReportedError => exit_code = <<1>>
             /\ exit_code = <<0>>
                   => (xlsx_file /= Absent /\ xlsx_file.state = "complete" /\ ~ReportedError)
             /\ (NoShifts /\ ~ReportedError) => exit_code = <<0>>

\* a run over an empty range returns 0
C6_Witness ==
    /\ Returned
    /\ NoShifts
    /\ period[1].end <= period[1].start
    /\ exit_code = <<0>>

\* the clock time of a window string part
ClockOf(s) == [hours |-> Val(ParseHM(s).val.hours), minutes |-> Val(ParseHM(s).val.minutes)]

\* C7: after a run that wrote the feeds and returned 0, every person of the
\* schedule has a feed that holds exactly one event per shift of that person,
\* in order, each starting and ending on the shift's date at the window's
\* start and end clock times.
C7_OneEventPerShift ==
    (pc = "exit" /\ exit_code = <<0>> /\ args.generate_ics) =>
        \A n \in 1..Len(layer_shifts) :
            LET person == layer_shifts[n].person
                shifts == ShiftsOf(layer_shifts, person)
                name == SafeFilename(person)
            IN /\ name \in DOMAIN ics_files
               /\ ics_files[name].person = person
               /\ Len(ics_files[name].events) = Len(shifts)
               /\ \A i \in 1..Len(shifts) :
                     LET e == ics_files[name].events[i]
                         parts == Split(shifts[i].time_window, Sep)
                     IN /\ e.dtstart.date = shifts[i].date
                        /\ e.dtend.date = shifts[i].date
                        /\ e.dtstart.hour = ClockOf(parts[1]).hours
                        /\ e.dtstart.minute = ClockOf(parts[1]).minutes
                        /\ e.dtend.hour = ClockOf(parts[2]).hours
                        /\ e.dtend.minute = ClockOf(parts[2]).minutes

\* the layers whose rotation_team is not empty, in declaration order
LayersWithTeam ==
    LET Test(layer) == Get(layer.cfg, "rotation_team", <<>>) /= <<>>
    IN SelectSeq(layers_config, Test)

\* a shift without its layer index
ShiftContent(s) ==
    [date |-> s.date, layer_name |-> s.layer_name, time_window |-> s.time_window,
     person |-> s.person]

ContentOf(shifts) == [n \in 1..Len(shifts) |-> ShiftContent(shifts[n])]

\* C8: the rotation loop is entered only with a non-empty team, no shift
\* comes from a layer with an empty team, and the sorted schedule is, layer
\* index aside, the schedule of the configuration without those layers.
C8_EmptyTeamSkipped ==
    /\ pc = "assign" => Get(layers_config[layer_idx + 1].cfg, "rotation_team", <<>>) /= <<>>
    /\ Loaded =>
          \A n \in 1..Len(layer_shifts) :
              Get(layers_config[layer_shifts[n].layer_idx + 1].cfg, "rotation_team", <<>>) /= <<>>
    /\ Sorted =>
          ContentOf(layer_shifts)
              = ContentOf(AggregatedSchedule(LayersWithTeam, period[1].start, period[1].end))

\* an empty-team layer declared before a layer that produced shifts
C8_Witness ==
    /\ pc = "exit"
    /\ Sorted
    /\ \E i \in 1..Len(layers_config) :
          /\ Get(layers_config[i].cfg, "rotation_team", <<>>) = <<>>
          /\ generate_dates_for_layer(layers_config[i].cfg, period[1].start, period[1].end) /= <<>>
          /\ \E n \in 1..Len(layer_shifts) : layer_shifts[n].layer_idx >= i

\* C9: a run whose resolved range has end <= start reports an
\* EmptyRangeWarning, raises nothing and has an empty schedule.
C9_EmptyRangeWarned ==
    (pc = "exit" /\ Loaded /\ ~BadShape /\ period[1].end <= period[1].start) =>
        /\ \E i \in 1..Len(out) : out[i].kind = "warning"
        /\ ~ReportedError
        /\ layer_shifts = <<>>

\* the relative expressions of the grammar: +N, +Nd, +Nw, +Nm, +Ny
IsRelativeExpression(s) ==
    /\ Len(s) >= 2
    /\ s[1] = "+"
    /\ \/ AllDigits(SubSeq(s, 2, Len(s)))
       \/ /\ Len(s) >= 3
          /\ AllDigits(SubSeq(s, 2, Len(s) - 1))
          /\ s[Len(s)] \in {"d", "w", "m", "y"}

\* the accepted forms, s being trimmed and lower-cased
AcceptedExpression(s) == s = Today \/ IsRelativeExpression(s) \/ Strptime(s).ok

\* what C10 says of one parsed argument: a date exactly for the accepted
\* forms, else the invalid-date error with the string and the formats, and
\* main at exit code 1 with no schedule generated
ParsedAsClaimed(arg, ref) ==
    LET s == Lower(Strip(arg))
        r == parse_date_argument(arg, ref)
    IN /\ r.ok <=> AcceptedExpression(s)
       /\ ~r.ok => /\ r = InvalidDateFormat(s)
                   /\ pc = "exit" /\ exit_code = <<1>> /\ ~Loaded
                   /\ out[Len(out)].kind = "error"

\* main got to line 706, where the date arguments are parsed
StartReached ==
    /\ pc \notin {"parse_args", "makedirs"}
    /\ \A i \in 1..Len(out) :
          /\ out[i].kind \notin {"usage", "help"}
          /\ out[i].kind = "traceback" => out[i].at /= "makedirs"

\* C10: parse_date_argument returns a date exactly for today, +N, +Nd, +Nw,
\* +Nm, +Ny and a well-formed absolute date; every other input fails with the
\* invalid-date error and main exits with code 1 before any schedule.
C10_ParseExactly ==
    /\ (StartReached /\ pc /= "parse_start" /\ Truthy(args.start_date))
          => ParsedAsClaimed(args.start_date[1], today)
    /\ (StartReached /\ pc \notin {"parse_start", "parse_end"} /\ ~BadStartArg
           /\ Truthy(args.end_date))
          => ParsedAsClaimed(args.end_date[1], EndReference)

\* the files on disk that a run can write
OutputFiles == {xlsx_file, png_file} \cup {ics_files[f] : f \in DOMAIN ics_files}

\* C11: when a run ends with exit code 1, every output file (spreadsheet,
\* timeline image, each calendar feed) is absent or complete, none is partial.
C11_NoPartialOutput ==
    (pc = "exit" /\ exit_code = <<1>>) =>
        \A file \in OutputFiles : file.state \in {"absent", "complete"}

\* the weekday keys the layer configures: time_windows keys, else the days list
ConfiguredKeys(layer_config) ==
    IF "time_windows" \in DOMAIN layer_config
    THEN DOMAIN layer_config.time_windows
    ELSE Range(Get(layer_config, "days", <<>>))

\* the weekday of date d is configured, by a key that is name up to case
ConfiguredAs(layer_config, d, name) ==
    /\ \E k \in ConfiguredKeys(layer_config) : Lower(k) = name
    /\ \E w \in 0..6 : DayNames[w + 1] = name /\ (d + 6) % 7 = w

\* C12: the dates enumerated for the current layer are exactly the dates d
\* with start <= d < end whose weekday the layer configures, each once, each
\* paired with the (lower-case) key of its weekday, in strictly increasing
\* order; nothing is enumerated when end <= start.
C12_DatesOfLayer ==
    pc = "assign" =>
        LET layer_config == layers_config[layer_idx + 1].cfg
            start == period[1].start
            end == period[1].end
        IN /\ \A i \in 1..Len(dates) :
                 /\ start <= dates[i].date /\ dates[i].date < end
                 /\ ConfiguredAs(layer_config, dates[i].date, dates[i].day_name)
           /\ \A d \in start..(end - 1) :
                 (\E name \in Range(DayNames) : ConfiguredAs(layer_config, d, name))
                     => Cardinality({i \in 1..Len(dates) : dates[i].date = d}) = 1
           /\ \A i \in 1..(Len(dates) - 1) : dates[i].date < dates[i + 1].date
           /\ end <= start => dates = <<>>

\* an enumeration that kept some dates of the range and skipped others
C12_Witness ==
    /\ pc = "assign"
    /\ Len(dates) >= 2
    /\ \E d \in period[1].start..(period[1].end - 1) :
          /\ \A i \in 1..Len(dates) : dates[i].date /= d
          /\ \E i, j \in 1..Len(dates) : dates[i].date < d /\ d < dates[j].date
    /\ \E i \in 1..Len(dates) : dates[i].date = period[1].start

\* the clock times of the plotted shifts, as converted by int()
PlottedClocks ==
    UNION {{ParseHM(Split(viz_shifts[i].time_window, Sep)[k]).val : k \in {1, 2}} :
           i \in 1..Len(viz_shifts)}

\* the hours and minutes of every plotted clock time have at most seven
\* decimal digits
ShortClocks ==
    \A c \in PlottedClocks : Len(c.hours.digits) <= 7 /\ Len(c.minutes.digits) <= 7

\* the start and end times of the plotted shifts, in minutes
PlottedMinutes == {Val(c.hours) * 60 + Val(c.minutes) : c \in PlottedClocks}

\* lo is the floor of the smallest hour value
IsFloorOfMin(lo) ==
    /\ \A m \in PlottedMinutes : lo * 60 <= m
    /\ \E m \in PlottedMinutes : m < (lo + 1) * 60

\* C13 as stated: the lower axis bound is the floor of the smallest hour
\* value and the upper bound the ceiling of the largest, so a latest time at a
\* whole hour H gives the upper bound H.
C13_FloorAndCeiling ==
    (png_file.state = "complete" /\ ShortClocks) =>
        /\ IsFloorOfMin(png_file.layout.min_time)
        /\ \A m \in PlottedMinutes : m <= png_file.layout.max_time * 60
        /\ \E m \in PlottedMinutes : (png_file.layout.max_time - 1) * 60 < m

\* no plotted clock time is negative, and the hours and minutes of each have
\* at most seven decimal digits
ClocksInRange == ShortClocks /\ \A m \in PlottedMinutes : m >= 0

\* C13, amended: when no clock time is negative (int() truncates toward
\* zero) and the hours and minutes of each have at most seven decimal digits
\* (the hour value is a float, which rounds large numbers), min_time is the
\* floor of the smallest hour value; max_time is the floor of the largest
\* hour value plus one, which is the ceiling when the largest is not a whole
\* hour and H + 1 when the latest time is the whole hour H; the axis is drawn
\* from min_time - 2 to max_time.
C13_AxisBounds ==
    (png_file.state = "complete" /\ ClocksInRange) =>
        /\ png_file.layout.exact
        /\ IsFloorOfMin(png_file.layout.min_time)
        /\ \A m \in PlottedMinutes : m < png_file.layout.max_time * 60
        /\ \E m \in PlottedMinutes : (png_file.layout.max_time - 1) * 60 <= m
        /\ png_file.layout.ylim
              = <<png_file.layout.min_time - 2, png_file.layout.max_time>>

\* a timeline whose latest time is a whole hour H, drawn up to H + 1
C13_Witness ==
    /\ pc = "exit"
    /\ png_file.state = "complete"
    /\ ClocksInRange
    /\ \E m \in PlottedMinutes :
          /\ \A n \in PlottedMinutes : n <= m
          /\ m % 60 = 0
          /\ png_file.layout.max_time * 60 = m + 60
    /\ \E m \in PlottedMinutes : m % 60 /= 0

\* C14: within a feed, two events have the same UID exactly when they have
\* the same start timestamp and the same layer; the UID is the one computed
\* from the event's start and person, whenever the feed is written.
C14_UidByStartPersonLayer ==
    \A f \in DOMAIN ics_files :
        LET events == ics_files[f].events
        IN \A i, j \in 1..Len(events) :
              /\ events[i].uid = EventUid(IcsStamp(events[i].dtstart), events[i].person)
              /\ (events[i].uid = events[j].uid)
                    <=> (/\ events[i].dtstart = events[j].dtstart
                         /\ events[i].summary = events[j].summary)

\* C15: while the map holds at most palette-size persons, different persons
\* have different colours.
C15_DistinctColors ==
    Cardinality(DOMAIN person_colors) <= Len(colors) =>
        \A p1, p2 \in DOMAIN person_colors :
            p1 /= p2 => person_colors[p1] /= person_colors[p2]

====
